---- MODULE Spec2Model ----
(***************************************************************************)
(* Futures, promises and tasks of aio (src/aio/future/pure.py) driven by   *)
(* a FIFO loop of ready callbacks, and the task group of                   *)
(* src/aio/task_group.py over the futures of src/aio/future.py.            *)
(***************************************************************************)
EXTENDS Naturals, Sequences, FiniteSets, TLC

(***************************************************************************)
(* Bounds of the model.                                                    *)
(***************************************************************************)
\* number of calls the code outside the loop makes (promise writes, cancels,
\* add/remove callback, task creation) in one behaviour
MaxOps == 4

(***************************************************************************)
(* Objects.  Plain futures are held through their promise; tasks are made  *)
(* by create_task or by the Task constructor.                              *)
(***************************************************************************)
Futs == {"f1", "f2"}
Tasks == {"t1", "t2"}
Objs == Futs \cup Tasks
UserCbs == {"cbA", "cbB"}
\* the objects user callbacks are registered on: a plain future and a task
CbObjs == {"f1", "t2"}

NoObj == "none"

\* a callback: a user callable or the bound method Task._execute_coroutine_step
UserCb(n) == <<"user", n>>
StepCb(t) == <<"step", t>>
IsStepCb(cb) == cb[1] = "step"

\* values and exceptions are records; id tells instances of one kind apart
NoVal == [kind |-> "NotSet", id |-> 0]
Val(i) == [kind |-> "value", id |-> i]
Vals == {Val(1)}
NoExc == [kind |-> "None", id |-> 0]
Exc(k, i) == [kind |-> k, id |-> i]
UserExcs == {Exc("SpecialExc", 1)}
\* the Cancelled instance a caller builds and passes to cancel
CancelInsts == {Exc("Cancelled", 1)}
IsCancelledExc(e) == e.kind = "Cancelled"
\* errors the library raises; FutureFinishedError is raised bare by _set_result
\* and Task._cancel, and with a message by add_callback
FutureFinishedError == Exc("FutureFinishedError", 0)
CouldNotSchedule == Exc("FutureFinishedError", 1)
RuntimeErr == Exc("RuntimeError", 0)
AssertionErr == Exc("AssertionError", 0)
SelfCancelForbidden == Exc("SelfCancelForbidden", 0)
Ok == Exc("ok", 0)

\* aio.future.utils.coerce_cancel_arg: None or a message makes a fresh
\* Cancelled (numbered by the count of those made so far), an instance is
\* used as it is
CoerceCancelArg(arg, n) ==
    IF arg.kind = "Cancelled" THEN arg ELSE Exc("Cancelled", 10 + n)
NoArg == Exc("None", 0)

(***************************************************************************)
(* Coroutines.  A coroutine is a list of instructions; an await with       *)
(* catch = TRUE stands inside try/except BaseException.                    *)
(***************************************************************************)
Await(x, c) == [op |-> "await", target |-> x, catch |-> c, val |-> NoVal, exc |-> NoExc]
Return(v) == [op |-> "return", target |-> NoObj, catch |-> FALSE, val |-> v, exc |-> NoExc]
Raise(e) == [op |-> "raise", target |-> NoObj, catch |-> FALSE, val |-> NoVal, exc |-> e]
\* x.cancel() called by the coroutine, x the current task or another
Cancel(x, c) == [op |-> "cancel", target |-> x, catch |-> c, val |-> NoVal, exc |-> NoExc]

\* the coroutines of the two tasks: t1 awaits t2 and then f2, t2 awaits f1
\* and then returns, or raises an error of its own if it catches nothing
Programs ==
    { [t1 |-> <<Await("t2", c1), Await("f2", FALSE), Return(Val(1))>>,
       t2 |-> <<Await("f1", c2), last>>] :
        c1 \in BOOLEAN, c2 \in BOOLEAN,
        last \in {Return(Val(1)), Raise(Exc("SpecialExc", 1))} }
      \ { [t1 |-> <<Await("t2", c1), Await("f2", FALSE), Return(Val(1))>>,
            t2 |-> <<Await("f1", TRUE), Raise(Exc("SpecialExc", 1))>>] :
             c1 \in BOOLEAN }

\* the coroutine of t2 calls cancel on its own task before it awaits
SelfCancelPrograms ==
    { [t1 |-> <<Await("t2", FALSE), Await("f2", FALSE), Return(Val(1))>>,
       t2 |-> <<Cancel("t2", c2), Await("f1", FALSE), Return(Val(1))>>] :
        c2 \in BOOLEAN }

\* the coroutine of t2 awaits its own task, which it got from get_current_task
SelfAwaitPrograms ==
    { [t1 |-> <<Await("t2", c1), Await("f2", FALSE), Return(Val(1))>>,
       t2 |-> <<Await("t2", FALSE), Return(Val(1))>>] :
        c1 \in BOOLEAN }

\* the coroutine of t2 calls cancel on t1, the task that awaits t2: as its
\* first statement, or after its await of f1
CrossCancelPrograms ==
    { [t1 |-> <<Await("t2", FALSE), Await("f2", FALSE), Return(Val(1))>>,
       t2 |-> p2] :
        p2 \in { <<Cancel("t1", c2), Await("f1", FALSE), Return(Val(1))>> : c2 \in BOOLEAN }
                  \cup
               { <<Await("f1", FALSE), Cancel("t1", c2), Return(Val(1))>> : c2 \in BOOLEAN } }

VARIABLES
    prog,      \* the coroutine function of each task
    fut,       \* Future._state of every future and task
    coro,      \* the coroutine object of each task
    queue,     \* the loop's ready callbacks, FIFO
    handles,   \* the Handle of every call_soon made so far
    calls,     \* invocations of the user callbacks, in order
    err,       \* what the last operation raised
    fresh,     \* Cancelled instances made by coerce_cancel_arg so far
    current,   \* current_task_cv in the context the loop's callbacks run in
    ops,       \* calls made by the code outside the loop
    last       \* the cancel the code outside the loop has just made (no
               \* other call since), and what it found: the state of its
               \* object, the chain of awaited futures that starts at it,
               \* the state of the last future of that chain, the step
               \* callbacks of the object in the ready queue and the
               \* resumptions its coroutine had had

vars == <<prog, fut, coro, queue, handles, calls, err, fresh, current, ops, last>>

\* the task group of src/aio/task_group.py and all that runs in its scope
VARIABLES
    body,      \* the body of the scope: whether it awaits BodyFut, whether it raises
    cprog,     \* the coroutine function of each child
    ofut,      \* the fields of every future and task of src/aio/future.py
    oco,       \* the coroutine object of each task
    oqueue,    \* the loop's ready callbacks, FIFO
    group,     \* TaskGroup._tasks and TaskGroup._is_finalized
    doneq,     \* the queue of iter_done_futures
    oerr,      \* what the last callback or call raised
    scope,     \* how control left the task_group scope
    rank,      \* the iteration order of the callback sets
    budget,    \* calls left to the code outside the loop
    order,     \* the callbacks the code outside the loop has registered and
               \* not removed, as <<future, callback>>, oldest first
    completed, \* the tasks of the group that have finished, in the order in
               \* which they finished
    pool       \* the thread pool of ConcurrentExecutor: the state of cfuture and
               \* the work submitted and not yet taken by a worker

ovars ==
    <<body, cprog, ofut, oco, oqueue, group, doneq, oerr, scope, rank, budget, order,
      completed, pool>>

(***************************************************************************)
(* The state the operations work on, as one record, so that an operation   *)
(* that calls others is the composition of their effects.                  *)
(***************************************************************************)
World ==
    [fut |-> fut, coro |-> coro, queue |-> queue, handles |-> handles,
     calls |-> calls, err |-> Ok, fresh |-> fresh, current |-> current]

Raised(w, e) == [w EXCEPT !.err = e]

\* _PendingState and its subclasses _CreatedState, _ScheduledState, _RunningState
IsPending(s) == s.tag \in {"pending", "created", "scheduled", "running"}
IsBaseTaskState(s) == s.tag \in {"created", "scheduled", "running"}
IsFinished(s) == s.tag \in {"success", "failed"}
IsCancelled(s) == s.tag = "failed" /\ IsCancelledExc(s.exc)

PendingState ==
    [tag |-> "pending", cbs |-> <<>>, sched |-> <<>>, val |-> NoVal, exc |-> NoExc,
     handle |-> 0, waiting_on |-> NoObj]
AbsentState == [PendingState EXCEPT !.tag = "absent"]
CreatedState == [PendingState EXCEPT !.tag = "created"]

SeqIndex(seq, x) ==
    IF \E i \in 1..Len(seq) : seq[i] = x
    THEN CHOOSE i \in 1..Len(seq) : seq[i] = x /\ \A j \in 1..(i - 1) : seq[j] # x
    ELSE 0
SeqRemove(seq, x) == SelectSeq(seq, LAMBDA y : y # x)

(***************************************************************************)
(* The loop: call_soon appends to the ready queue and returns a Handle;    *)
(* Handle.cancel revokes the entry when it has not been executed yet.      *)
(***************************************************************************)
NextHandle(w) == Len(w.handles) + 1

CallSoon(w, cb, arg, ic) ==
    [w EXCEPT !.queue = Append(@, [id |-> NextHandle(w), cb |-> cb, arg |-> arg, ic |-> ic]),
              !.handles = Append(@, "queued")]

HandleCancel(w, h) ==
    IF w.handles[h] = "queued"
    THEN [w EXCEPT !.queue = SelectSeq(@, LAMBDA e : e.id # h),
                   !.handles[h] = "cancelled"]
    ELSE w

(***************************************************************************)
(* Future                                                                  *)
(***************************************************************************)
\* add_callback that keeps a list and no membership check
AddCallbackDup(w, x, cb) ==
    IF IsPending(w.fut[x]) THEN [w EXCEPT !.fut[x].cbs = Append(@, cb)]
    ELSE Raised(w, CouldNotSchedule)

\* Future.add_callback: result_callbacks is a dict keyed by the callback
AddCallback(w, x, cb) ==
    LET s == w.fut[x] IN
    IF IsPending(s)
    THEN IF SeqIndex(s.cbs, cb) # 0 THEN w
         ELSE [w EXCEPT !.fut[x].cbs = Append(@, cb)]
    ELSE Raised(w, CouldNotSchedule)

\* remove_callback that forgets the callback and leaves its handle alone
RemoveCallbackNoRevoke(w, x, cb) ==
    LET s == w.fut[x] IN
    IF IsPending(s)
    THEN [w EXCEPT !.fut[x].cbs = SeqRemove(@, cb)]
    ELSE LET i == SeqIndex([k \in 1..Len(s.sched) |-> s.sched[k][1]], cb) IN
         IF i = 0 THEN w
         ELSE [w EXCEPT !.fut[x].sched = SeqRemove(@, s.sched[i])]

\* Future.remove_callback
RemoveCallback(w, x, cb) ==
    LET s == w.fut[x] IN
    IF IsPending(s)
    THEN [w EXCEPT !.fut[x].cbs = SeqRemove(@, cb)]
    ELSE LET i == SeqIndex([k \in 1..Len(s.sched) |-> s.sched[k][1]], cb) IN
         IF i = 0 THEN w
         ELSE HandleCancel([w EXCEPT !.fut[x].sched = SeqRemove(@, s.sched[i])],
                           s.sched[i][2])

\* Future._schedule_callbacks: one call_soon(cb, self) per callback, in the
\* order of the dict; the second component is the dict of handles
ScheduleCallbacks(w, x) ==
    LET cbs == w.fut[x].cbs
        n == Len(cbs)
        base == Len(w.handles)
    IN  [w EXCEPT !.queue = @ \o [i \in 1..n |->
                                [id |-> base + i, cb |-> cbs[i], arg |-> x, ic |-> NoExc]],
                  !.handles = @ \o [i \in 1..n |-> "queued"]]
ScheduledCbs(w, x) ==
    [i \in 1..Len(w.fut[x].cbs) |-> <<w.fut[x].cbs[i], Len(w.handles) + i>>]

\* what a read hands to its caller: the value it returns or the exception
\* it raises
Returns(v) == [ret |-> v, raised |-> NoExc]
Raises(e) == [ret |-> NoVal, raised |-> e]

\* Future.result
FutureResult(s) ==
    IF IsPending(s) THEN Raises(Exc("FutureNotReady", 0))
    ELSE IF s.tag = "success" THEN Returns(s.val)
    ELSE Raises(s.exc)

\* Future.exception; None is NoExc
FutureException(s) ==
    IF IsPending(s) THEN Raises(Exc("FutureNotReady", 0))
    ELSE IF s.tag = "success" THEN Returns(NoExc)
    ELSE Returns(s.exc)

\* _set_result that schedules the callbacks and leaves the state to a later
\* step of the loop
FutureSetResultDeferred(w, x, val, exc) ==
    IF val # NoVal /\ exc # NoExc THEN Raised(w, Exc("ValueError", 0))
    ELSE IF ~IsPending(w.fut[x]) THEN Raised(w, FutureFinishedError)
    ELSE ScheduleCallbacks(w, x)

\* _set_result without the check that the future is still pending
FutureSetResultUnguarded(w, x, val, exc) ==
    [ScheduleCallbacks(w, x) EXCEPT
        !.fut[x] = [tag |-> IF val # NoVal THEN "success" ELSE "failed",
                    cbs |-> <<>>, sched |-> ScheduledCbs(w, x),
                    val |-> val, exc |-> exc, handle |-> 0, waiting_on |-> NoObj]]

\* Future._set_result
FutureSetResult(w, x, val, exc) ==
    IF val # NoVal /\ exc # NoExc THEN Raised(w, Exc("ValueError", 0))
    ELSE IF ~IsPending(w.fut[x]) THEN Raised(w, FutureFinishedError)
    ELSE LET w1 == ScheduleCallbacks(w, x)
             done == [tag |-> IF val # NoVal THEN "success" ELSE "failed",
                      cbs |-> <<>>, sched |-> ScheduledCbs(w, x),
                      val |-> val, exc |-> exc, handle |-> 0, waiting_on |-> NoObj]
         IN  IF val = NoVal /\ exc = NoExc THEN Raised(w1, AssertionErr)
             ELSE [w1 EXCEPT !.fut[x] = done]

\* aio.utils.is_coro_running
IsCoroRunning(c) == c.st = "CORO_RUNNING"

\* Task._set_result without the check of the coroutine
TaskSetResultUnguarded(w, t, val, exc) == FutureSetResult(w, t, val, exc)

\* Task._set_result
TaskSetResult(w, t, val, exc) ==
    IF IsBaseTaskState(w.fut[t]) /\ IsCoroRunning(w.coro[t])
    THEN Raised(w, RuntimeErr)
    ELSE FutureSetResult(w, t, val, exc)

\* self._set_result, by the class of self
SetResult(w, x, val, exc) ==
    IF x \in Tasks THEN TaskSetResult(w, x, val, exc) ELSE FutureSetResult(w, x, val, exc)

\* Future._cancel
FutureCancel(w, x, arg) ==
    LET c == CoerceCancelArg(arg, w.fresh)
        w1 == IF arg.kind = "Cancelled" THEN w ELSE [w EXCEPT !.fresh = @ + 1]
    IN  SetResult(w1, x, NoVal, c)

(***************************************************************************)
(* Task                                                                    *)
(***************************************************************************)
RECURSIVE TaskCancelInner(_, _, _)
\* cancel_future: future._cancel(msg), by the class of the future
CancelFuture(w, x, arg) ==
    IF x \in Tasks THEN TaskCancelInner(w, x, arg) ELSE FutureCancel(w, x, arg)

\* Task._cancel that leaves the wake-up of the finished waiting_on in the queue
TaskCancelInnerKeepWakeup(w, t, arg) ==
    LET s == w.fut[t] IN
    IF ~IsPending(s) THEN Raised(w, FutureFinishedError)
    ELSE IF s.tag = "scheduled"
    THEN IF w.handles[s.handle] = "executed" THEN Raised(w, AssertionErr)
         ELSE FutureCancel(HandleCancel(w, s.handle), t, arg)
    ELSE IF s.tag = "running" /\ ~IsFinished(w.fut[s.waiting_on])
    THEN CancelFuture(w, s.waiting_on, arg)
    ELSE IF s.tag = "running"
    THEN LET c == CoerceCancelArg(arg, w.fresh)
             w2 == IF arg.kind = "Cancelled" THEN w ELSE [w EXCEPT !.fresh = @ + 1]
         IN  CallSoon(w2, StepCb(t), NoObj, c)
    ELSE FutureCancel(w, t, arg)

\* Task._cancel that cancels the awaited future without handing the payload on
TaskCancelInnerNoPayload(w, t, arg) ==
    LET s == w.fut[t] IN
    IF ~IsPending(s) THEN Raised(w, FutureFinishedError)
    ELSE IF s.tag = "scheduled"
    THEN IF w.handles[s.handle] = "executed" THEN Raised(w, AssertionErr)
         ELSE FutureCancel(HandleCancel(w, s.handle), t, arg)
    ELSE IF s.tag = "running" /\ ~IsFinished(w.fut[s.waiting_on])
    THEN CancelFuture(w, s.waiting_on, NoArg)
    ELSE IF s.tag = "running"
    THEN LET w1 == RemoveCallback(w, s.waiting_on, StepCb(t))
             c == CoerceCancelArg(arg, w1.fresh)
             w2 == IF arg.kind = "Cancelled" THEN w1 ELSE [w1 EXCEPT !.fresh = @ + 1]
         IN  CallSoon(w2, StepCb(t), NoObj, c)
    ELSE FutureCancel(w, t, arg)

\* Task._cancel that returns at once on a finished task
TaskCancelInnerSilent(w, t, arg) ==
    LET s == w.fut[t] IN
    IF ~IsPending(s) THEN w
    ELSE IF s.tag = "scheduled"
    THEN IF w.handles[s.handle] = "executed" THEN Raised(w, AssertionErr)
         ELSE FutureCancel(HandleCancel(w, s.handle), t, arg)
    ELSE IF s.tag = "running" /\ ~IsFinished(w.fut[s.waiting_on])
    THEN CancelFuture(w, s.waiting_on, arg)
    ELSE IF s.tag = "running"
    THEN LET w1 == RemoveCallback(w, s.waiting_on, StepCb(t))
             c == CoerceCancelArg(arg, w1.fresh)
             w2 == IF arg.kind = "Cancelled" THEN w1 ELSE [w1 EXCEPT !.fresh = @ + 1]
         IN  CallSoon(w2, StepCb(t), NoObj, c)
    ELSE FutureCancel(w, t, arg)

\* Task._cancel
TaskCancelInner(w, t, arg) ==
    LET s == w.fut[t] IN
    IF ~IsPending(s) THEN Raised(w, FutureFinishedError)
    ELSE IF s.tag = "scheduled"
    THEN IF w.handles[s.handle] = "executed" THEN Raised(w, AssertionErr)
         ELSE FutureCancel(HandleCancel(w, s.handle), t, arg)
    ELSE IF s.tag = "running" /\ ~IsFinished(w.fut[s.waiting_on])
    THEN CancelFuture(w, s.waiting_on, arg)
    ELSE IF s.tag = "running"
    THEN LET w1 == RemoveCallback(w, s.waiting_on, StepCb(t))
             c == CoerceCancelArg(arg, w1.fresh)
             w2 == IF arg.kind = "Cancelled" THEN w1 ELSE [w1 EXCEPT !.fresh = @ + 1]
         IN  CallSoon(w2, StepCb(t), NoObj, c)
    ELSE FutureCancel(w, t, arg)

\* Task.cancel without the check of the coroutine state
TaskCancelUnchecked(w, t, arg) == TaskCancelInner(w, t, arg)

\* Task.cancel
TaskCancel(w, t, arg) ==
    IF IsBaseTaskState(w.fut[t]) /\ w.coro[t].st = "CORO_RUNNING"
    THEN Raised(w, SelfCancelForbidden)
    ELSE TaskCancelInner(w, t, arg)

\* _schedule_first_step that makes the scheduled state with no callbacks
ScheduleFirstStepFresh(w, t) ==
    IF w.fut[t].tag # "created" THEN Raised(w, RuntimeErr)
    ELSE IF w.coro[t].st # "CORO_CREATED" THEN Raised(w, RuntimeErr)
    ELSE LET w1 == CallSoon(w, StepCb(t), NoObj, NoExc) IN
         [w1 EXCEPT !.fut[t] = [CreatedState EXCEPT !.tag = "scheduled",
                                                      !.handle = NextHandle(w)]]

\* Task._schedule_first_step; _ScheduledState.__post_init__ wants the
\* coroutine in CORO_CREATED
ScheduleFirstStep(w, t) ==
    IF w.fut[t].tag # "created" THEN Raised(w, RuntimeErr)
    ELSE IF w.coro[t].st # "CORO_CREATED" THEN Raised(w, RuntimeErr)
    ELSE LET w1 == CallSoon(w, StepCb(t), NoObj, NoExc) IN
         [w1 EXCEPT !.fut[t].tag = "scheduled", !.fut[t].handle = NextHandle(w)]

(***************************************************************************)
(* One resumption of a coroutine: coroutine.send(None), or                 *)
(* coroutine.throw(inner_cancel).  The result says how the resumption      *)
(* ended: it yielded a future, returned, or raised.                        *)
(***************************************************************************)
Ended(w, kind, x, val, exc) == [w |-> w, kind |-> kind, fut |-> x, val |-> val, exc |-> exc]

RECURSIVE Exec(_, _, _, _)
\* an await whose handler does not stop a Cancelled
AfterAwaitNoSuppress(w, p, t, pc, exc) ==
    IF exc = NoExc \/ (p[t][pc].catch /\ ~IsCancelledExc(exc))
    THEN Exec(w, p, t, pc + 1)
    ELSE Ended([w EXCEPT !.coro[t] = [@ EXCEPT !.st = "CORO_CLOSED", !.pc = pc]],
               "raise", NoObj, NoVal, exc)

\* the await at pc has produced its outcome: Future.result() of a finished
\* future, or an exception raised at the await
AfterAwait(w, p, t, pc, exc) ==
    IF exc = NoExc \/ p[t][pc].catch
    THEN Exec(w, p, t, pc + 1)
    ELSE Ended([w EXCEPT !.coro[t] = [@ EXCEPT !.st = "CORO_CLOSED", !.pc = pc]],
               "raise", NoObj, NoVal, exc)

\* the outcome of Future.__await__ once the future is finished
Outcome(s) == IF s.tag = "failed" THEN s.exc ELSE NoExc

\* the coroutine has called cancel at pc: what the call raised is raised
\* there, and got keeps how the latest call ended
AfterCancel(w, p, t, pc) ==
    IF w.err # Ok
    THEN AfterAwait([w EXCEPT !.err = Ok, !.coro[t].got = w.err], p, t, pc, w.err)
    ELSE Exec([w EXCEPT !.coro[t].got = Ok], p, t, pc + 1)

\* a coroutine whose await hands back control only when the future has
\* failed: it goes on past a future that is still pending
ExecPastPending(w, p, t, pc) ==
    LET i == p[t][pc] IN
    CASE i.op = "await" -> AfterAwait(w, p, t, pc, Outcome(w.fut[i.target]))
      [] i.op = "return" ->
            Ended([w EXCEPT !.coro[t] = [@ EXCEPT !.st = "CORO_CLOSED", !.pc = pc]],
                  "return", NoObj, i.val, NoExc)
      [] i.op = "cancel" -> AfterCancel(TaskCancel(w, i.target, NoArg), p, t, pc)
      [] OTHER ->
            Ended([w EXCEPT !.coro[t] = [@ EXCEPT !.st = "CORO_CLOSED", !.pc = pc]],
                  "raise", NoObj, NoVal, i.exc)

\* a coroutine whose await yields the future whatever its state
ExecAlwaysYield(w, p, t, pc) ==
    LET i == p[t][pc] IN
    CASE i.op = "await" ->
            Ended([w EXCEPT !.coro[t] = [@ EXCEPT !.st = "CORO_SUSPENDED", !.pc = pc]],
                  "yield", i.target, NoVal, NoExc)
      [] i.op = "return" ->
            Ended([w EXCEPT !.coro[t] = [@ EXCEPT !.st = "CORO_CLOSED", !.pc = pc]],
                  "return", NoObj, i.val, NoExc)
      [] i.op = "cancel" -> AfterCancel(TaskCancel(w, i.target, NoArg), p, t, pc)
      [] OTHER ->
            Ended([w EXCEPT !.coro[t] = [@ EXCEPT !.st = "CORO_CLOSED", !.pc = pc]],
                  "raise", NoObj, NoVal, i.exc)

\* run the coroutine from the instruction at pc
Exec(w, p, t, pc) ==
    LET i == p[t][pc] IN
    CASE i.op = "await" ->
            IF IsPending(w.fut[i.target])
            THEN Ended([w EXCEPT !.coro[t] = [@ EXCEPT !.st = "CORO_SUSPENDED", !.pc = pc]],
                       "yield", i.target, NoVal, NoExc)
            ELSE AfterAwait(w, p, t, pc, Outcome(w.fut[i.target]))
      [] i.op = "return" ->
            Ended([w EXCEPT !.coro[t] = [@ EXCEPT !.st = "CORO_CLOSED", !.pc = pc]],
                  "return", NoObj, i.val, NoExc)
      [] i.op = "cancel" -> AfterCancel(TaskCancel(w, i.target, NoArg), p, t, pc)
      [] OTHER ->
            Ended([w EXCEPT !.coro[t] = [@ EXCEPT !.st = "CORO_CLOSED", !.pc = pc]],
                  "raise", NoObj, NoVal, i.exc)

\* aio.get_current_task, as the coroutine calls it: the Task current_task_cv
\* holds in the context the coroutine runs in
GetCurrentTask(w) == w.current

\* _send_to_coroutine_within_new_context that leaves current_task_cv as it
\* found it
SendToCoroutineNoBinding(w, p, t, ic) ==
    LET c == w.coro[t]
        reset_token == w.current
        w0 == w
        wr == [w0 EXCEPT !.coro[t] = [@ EXCEPT !.st = "CORO_RUNNING",
                                                !.sends = @ + (IF ic = NoExc THEN 1 ELSE 0),
                                                !.throws = @ + (IF ic = NoExc THEN 0 ELSE 1),
                                                !.saw = GetCurrentTask(w0)]]
        r == IF c.st = "CORO_CREATED" THEN Exec(wr, p, t, 1)
             ELSE LET x == p[t][c.pc].target IN
                  IF ic # NoExc THEN AfterAwait(wr, p, t, c.pc, ic)
                  ELSE IF IsPending(w.fut[x]) THEN AfterAwait(wr, p, t, c.pc, RuntimeErr)
                  ELSE AfterAwait(wr, p, t, c.pc, Outcome(w.fut[x]))
    IN  [r EXCEPT !.w.current = reset_token]

\* Task._send_to_coroutine_within_new_context: bind current_task_cv to the
\* task, send(None) or throw(inner_cancel) into the coroutine, which reads the
\* binding as it resumes, and reset the binding in the finally clause; a
\* coroutine suspended in Future.__await__ that is resumed while the future is
\* still pending gets a RuntimeError there
SendToCoroutine(w, p, t, ic) ==
    LET c == w.coro[t]
        reset_token == w.current
        w0 == [w EXCEPT !.current = t]
        wr == [w0 EXCEPT !.coro[t] = [@ EXCEPT !.st = "CORO_RUNNING",
                                                !.sends = @ + (IF ic = NoExc THEN 1 ELSE 0),
                                                !.throws = @ + (IF ic = NoExc THEN 0 ELSE 1),
                                                !.saw = GetCurrentTask(w0)]]
        r == IF c.st = "CORO_CREATED" THEN Exec(wr, p, t, 1)
             ELSE LET x == p[t][c.pc].target IN
                  IF ic # NoExc THEN AfterAwait(wr, p, t, c.pc, ic)
                  ELSE IF IsPending(w.fut[x]) THEN AfterAwait(wr, p, t, c.pc, RuntimeErr)
                  ELSE AfterAwait(wr, p, t, c.pc, Outcome(w.fut[x]))
    IN  [r EXCEPT !.w.current = reset_token]

\* contextvars.copy_context().run(_send_to_coroutine_within_new_context): the
\* step runs in a copy of the context, whose bindings the caller's context
\* never takes
ContextRun(w, p, t, ic) ==
    LET r == SendToCoroutine(w, p, t, ic) IN [r EXCEPT !.w.current = w.current]

\* the finally clause of Task._execute_coroutine_step
StepFinally(w, t) ==
    IF w.fut[t].tag = "running"
    THEN [RemoveCallback(w, w.fut[t].waiting_on, StepCb(t)) EXCEPT !.err = w.err]
    ELSE w

\* _execute_coroutine_step that stores a RuntimeError in place of what the
\* coroutine raised
ExecuteCoroutineStepWrapped(w, p, t, ic) ==
    LET s == w.fut[t] IN
    IF s.tag \notin {"scheduled", "running"} THEN Raised(w, RuntimeErr)
    ELSE IF ic # NoExc /\ s.tag = "scheduled" THEN Raised(w, Exc("AttributeError", 0))
    ELSE IF ic # NoExc /\ ~IsFinished(w.fut[s.waiting_on]) THEN Raised(w, RuntimeErr)
    ELSE LET r == ContextRun(w, p, t, ic) IN
         CASE r.kind = "return" -> StepFinally(TaskSetResult(r.w, t, r.val, NoExc), t)
           [] r.kind = "raise" -> StepFinally(TaskSetResult(r.w, t, NoVal, RuntimeErr), t)
           [] OTHER ->
                LET w1 == StepFinally(r.w, t)
                    w2 == AddCallback(w1, r.fut, StepCb(t))
                IN  IF r.fut = t THEN Raised(w1, RuntimeErr)
                    ELSE IF w2.err # Ok THEN w2
                    ELSE IF ~IsPending(w2.fut[t]) THEN Raised(w2, Exc("AttributeError", 0))
                    ELSE [w2 EXCEPT !.fut[t].tag = "running",
                                    !.fut[t].handle = 0,
                                    !.fut[t].waiting_on = r.fut]

\* Task._execute_coroutine_step
ExecuteCoroutineStep(w, p, t, ic) ==
    LET s == w.fut[t] IN
    IF s.tag \notin {"scheduled", "running"} THEN Raised(w, RuntimeErr)
    ELSE IF ic # NoExc /\ s.tag = "scheduled" THEN Raised(w, Exc("AttributeError", 0))
    ELSE IF ic # NoExc /\ ~IsFinished(w.fut[s.waiting_on]) THEN Raised(w, RuntimeErr)
    ELSE LET r == ContextRun(w, p, t, ic) IN
         CASE r.kind = "return" -> StepFinally(TaskSetResult(r.w, t, r.val, NoExc), t)
           [] r.kind = "raise" -> StepFinally(TaskSetResult(r.w, t, NoVal, r.exc), t)
           [] OTHER ->
                LET w1 == StepFinally(r.w, t)
                    w2 == AddCallback(w1, r.fut, StepCb(t))
                IN  IF r.fut = t THEN Raised(w1, RuntimeErr)
                    ELSE IF w2.err # Ok THEN w2
                    ELSE IF ~IsPending(w2.fut[t]) THEN Raised(w2, Exc("AttributeError", 0))
                    ELSE [w2 EXCEPT !.fut[t].tag = "running",
                                    !.fut[t].handle = 0,
                                    !.fut[t].waiting_on = r.fut]

(***************************************************************************)
(* Actions                                                                 *)
(***************************************************************************)
Commit(w) ==
    /\ fut' = w.fut
    /\ coro' = w.coro
    /\ queue' = w.queue
    /\ handles' = w.handles
    /\ calls' = w.calls
    /\ err' = w.err
    /\ fresh' = w.fresh
    /\ current' = w.current
    /\ UNCHANGED ovars

\* the object, the future it waits on, the future that one waits on, ...
RECURSIVE Chain(_)
Chain(x) ==
    IF fut[x].tag = "running" THEN <<x>> \o Chain(fut[x].waiting_on) ELSE <<x>>

NoCall ==
    [op |-> "none", obj |-> NoObj, arg |-> NoArg, pre |-> "none", chain |-> <<>>,
     end |-> "none", steps |-> <<>>, sends |-> 0]

\* the inner-cancel payloads of the step callbacks of x in the ready queue
QueuedSteps(x) ==
    LET q == SelectSeq(queue, LAMBDA e : e.cb = StepCb(x)) IN
    [i \in 1..Len(q) |-> q[i].ic]

\* one call made by the code outside the loop
Outside(op, x, arg) ==
    /\ ops < MaxOps
    /\ ops' = ops + 1
    /\ last' = IF op = "cancel"
               THEN [op |-> op, obj |-> x, arg |-> arg, pre |-> fut[x].tag,
                     chain |-> Chain(x), end |-> fut[Chain(x)[Len(Chain(x))]].tag,
                     steps |-> QueuedSteps(x),
                     sends |-> IF x \in Tasks THEN coro[x].sends ELSE 0]
               ELSE NoCall

Exists(x) == fut[x].tag # "absent"

NewCoroutine ==
    [st |-> "CORO_CREATED", pc |-> 0, sends |-> 0, throws |-> 0, saw |-> NoObj,
     got |-> NoExc]

\* the tasks a coroutine refers to exist when the coroutine is made
TargetsExist(t) ==
    \A i \in 1..Len(prog[t]) :
        (prog[t][i].op = "await" /\ prog[t][i].target # t) => Exists(prog[t][i].target)

\* Task.__init__
Constructed(w, t) == [w EXCEPT !.fut[t] = CreatedState, !.coro[t] = NewCoroutine]

\* Task(coroutine, loop): the task stays created until it is scheduled
NewTask(t) ==
    /\ Outside("Task", t, NoArg)
    /\ ~Exists(t)
    /\ TargetsExist(t)
    /\ Commit(Constructed(World, t))
    /\ UNCHANGED prog

\* create_task
CreateTask(t) ==
    /\ Outside("create_task", t, NoArg)
    /\ ~Exists(t)
    /\ TargetsExist(t)
    /\ Commit(ScheduleFirstStep(Constructed(World, t), t))
    /\ UNCHANGED prog

\* task._schedule_first_step() on a task made by the constructor
ScheduleTask(t) ==
    /\ Outside("schedule_first_step", t, NoArg)
    /\ Exists(t)
    /\ Commit(ScheduleFirstStep(World, t))
    /\ UNCHANGED prog

\* FuturePromise.set_result
PromiseSetResult(f, v) ==
    /\ Outside("set_result", f, v)
    /\ Commit(SetResult(World, f, v, NoExc))
    /\ UNCHANGED prog

\* set_exception that stores whatever exception it is given
PromiseSetExceptionAny(f, e) ==
    /\ Outside("set_exception", f, e)
    /\ Commit(SetResult(World, f, NoVal, e))
    /\ UNCHANGED prog

\* FuturePromise.set_exception
PromiseSetException(f, e) ==
    /\ Outside("set_exception", f, e)
    /\ Commit(IF IsCancelledExc(e) THEN Raised(World, Exc("TypeError", 0))
              ELSE SetResult(World, f, NoVal, e))
    /\ UNCHANGED prog

\* FuturePromise.cancel
PromiseCancel(f, arg) ==
    /\ Outside("cancel", f, arg)
    /\ Commit(CancelFuture(World, f, arg))
    /\ UNCHANGED prog

\* Task.cancel, called by code that is not a step of the loop
CancelTask(t, arg) ==
    /\ Outside("cancel", t, arg)
    /\ Exists(t)
    /\ Commit(TaskCancel(World, t, arg))
    /\ UNCHANGED prog

\* future.add_callback(cb) with a user callback
UserAddCallback(x, n) ==
    /\ Outside("add_callback", x, Exc(n, 0))
    /\ Exists(x)
    /\ Commit(AddCallback(World, x, UserCb(n)))
    /\ UNCHANGED prog

\* future.remove_callback(cb) with a user callback
UserRemoveCallback(x, n) ==
    /\ Outside("remove_callback", x, Exc(n, 0))
    /\ Exists(x)
    /\ Commit(RemoveCallback(World, x, UserCb(n)))
    /\ UNCHANGED prog

\* what the loop does with the entry it took from the ready queue
RunEntry(w, p, e) ==
    IF IsStepCb(e.cb) THEN ExecuteCoroutineStep(w, p, e.cb[2], e.ic)
    ELSE [w EXCEPT !.calls = Append(@, <<e.cb, e.arg>>)]

\* one tick of the loop: the oldest ready callback is executed
Tick ==
    /\ queue # <<>>
    /\ LET e == Head(queue)
           w == [World EXCEPT !.queue = Tail(@), !.handles[e.id] = "executed"]
       IN  Commit(RunEntry(w, prog, e))
    /\ UNCHANGED <<prog, ops, last>>

\* one tick of a loop whose Handle.executed is still false while the
\* callback runs
TickAfter ==
    /\ queue # <<>>
    /\ LET e == Head(queue)
           w == [World EXCEPT !.queue = Tail(@)]
       IN  Commit([RunEntry(w, prog, e) EXCEPT !.handles[e.id] = "executed"])
    /\ UNCHANGED <<prog, ops, last>>

(***************************************************************************)
(* Properties                                                              *)
(***************************************************************************)
\* the step was taken by the loop, not by a call of the code outside it
IsTick == ops' = ops
Count(seq, x) == Cardinality({i \in 1..Len(seq) : seq[i] = x})
UserCbsOf(cbs) == {cbs[i] : i \in 1..Len(cbs)} \ {StepCb(t) : t \in Tasks}
SchedCbs(s) == [i \in 1..Len(s.sched) |-> s.sched[i][1]]

\* C1: a future that is success or failed keeps its state tag, its value and
\* its exception in every later step: it never returns to pending and never
\* passes from one terminal state to the other
C1_Monotone ==
    [][\A x \in Objs :
          IsFinished(fut[x]) =>
              /\ fut'[x].tag = fut[x].tag
              /\ fut'[x].val = fut[x].val
              /\ fut'[x].exc = fut[x].exc]_vars

\* a cancel has just been refused on an object that was already terminal
C1_Witness ==
    /\ last.op = "cancel"
    /\ last.pre \in {"success", "failed"}
    /\ err = FutureFinishedError

\* C2, in states: a user callback is invoked at most once per future, only on
\* a finished future, and once the ready queue is empty every callback the
\* completion scheduled (and nobody removed) has been invoked exactly once
C2_State ==
    \A x \in Objs, n \in UserCbs :
        /\ Count(calls, <<UserCb(n), x>>) <= 1
        /\ Count(calls, <<UserCb(n), x>>) = 1 => IsFinished(fut[x])
        /\ (queue = <<>> /\ IsFinished(fut[x]) /\ UserCb(n) \in UserCbsOf(SchedCbs(fut[x])))
              => Count(calls, <<UserCb(n), x>>) = 1

\* C2, in steps: a callback is invoked only by a tick of the loop, which
\* invokes the callback at the head of the ready queue with its future; and
\* the step that completes a future schedules exactly its registered callbacks
C2_Step ==
    /\ calls' # calls =>
          /\ IsTick
          /\ queue # <<>>
          /\ calls' = Append(calls, <<Head(queue).cb, Head(queue).arg>>)
    /\ \A x \in Objs :
          (IsPending(fut[x]) /\ IsFinished(fut'[x])) =>
              /\ UserCbsOf(fut[x].cbs) = UserCbsOf(SchedCbs(fut'[x]))
              /\ \A n \in UserCbs :
                    Count(SchedCbs(fut'[x]), UserCb(n)) <= 1

\* C2: every callback registered on a pending future, once or several times,
\* is invoked exactly once after the future completes, with the future as
\* argument, by a later tick of the loop: never inside set_result,
\* set_exception or cancel, and never while the future is pending
C2_CallbackOnce == []C2_State /\ [][C2_Step]_vars

\* a callback registered on a future has been invoked by the loop
C2_Witness ==
    \E x \in Objs, n \in UserCbs :
        /\ Count(calls, <<UserCb(n), x>>) = 1
        /\ queue = <<>>

StepEntries(t) == {i \in 1..Len(queue) : queue[i].cb = StepCb(t)}

\* C3: the ready queue (which holds the un-revoked callbacks only) never holds
\* more than one step callback of the same task
C3_OneStepQueued == \A t \in Tasks : Cardinality(StepEntries(t)) <= 1

\* the await of task t on x, and whether it stands in a try that catches
AwaitPc(t, x) == CHOOSE pc \in 1..Len(prog[t]) : prog[t][pc].op = "await" /\ prog[t][pc].target = x
Catches(t, x) == prog[t][AwaitPc(t, x)].catch

\* Task.cancel(C), C a Cancelled instance, has just been called on the head
\* of a chain of running tasks that ended in a pending plain future
ChainCancelled ==
    /\ last.op = "cancel"
    /\ last.obj \in Tasks
    /\ last.arg \in CancelInsts
    /\ Len(last.chain) >= 2
    /\ last.chain[Len(last.chain)] \in Futs
    /\ last.end = "pending"

\* the exception raised at the await of the i-th member of the chain reaches
\* it and leaves it: no task from the i-th on catches it
Propagates(i) ==
    \A j \in i..(Len(last.chain) - 1) : ~Catches(last.chain[j], last.chain[j + 1])

InnerCancelled ==
    /\ last.op = "cancel"
    /\ last.obj \in Tasks
    /\ last.pre = "running"
    /\ Len(last.chain) = 2
    /\ last.end \in {"success", "failed"}
    /\ last.steps = <<NoExc>>

\* the payload the cancel delivers: the instance passed, or a fresh Cancelled
Delivered(e) == IF last.arg.kind = "Cancelled" THEN e = last.arg ELSE IsCancelledExc(e)

\* C6: after cancel(C) on a running task whose waiting_on is already terminal
\* the task stays running and the ready queue holds one step callback of
\* it, the one carrying C, until the loop executes it; the drain resumes the
\* coroutine once, by throwing C at the await, and a coroutine that does not
\* catch it leaves the task failed with C
C6_InnerCancel ==
    InnerCancelled =>
        LET t == last.obj
            x == last.chain[2]
        IN  /\ coro[t].sends = last.sends
            /\ coro[t].throws \in {0, 1}
            /\ coro[t].throws = 0 =>
                  /\ fut[t].tag = "running"
                  /\ fut[t].waiting_on = x
                  /\ Len(QueuedSteps(t)) = 1
                  /\ Delivered(QueuedSteps(t)[1])
            /\ queue = <<>> =>
                  /\ coro[t].throws = 1
                  /\ ~Catches(t, x) =>
                        /\ fut[t].tag = "failed"
                        /\ Delivered(fut[t].exc)
                        /\ coro[t].pc = AwaitPc(t, x)

\* the inner cancel has been thrown into the coroutine, which did not catch it
C6_Witness ==
    /\ InnerCancelled
    /\ queue = <<>>
    /\ coro[last.obj].throws = 1
    /\ fut[last.obj].tag = "failed"
    /\ fut[last.obj].exc = last.arg

\* the call was refused with FutureFinishedError and left x and the ready
\* queue as they were
Refused(x) ==
    /\ err'.kind = "FutureFinishedError"
    /\ fut'[x] = fut[x]
    /\ queue' = queue
    /\ handles' = handles

C12_Step ==
    /\ \A f \in Futs, v \in Vals :
          (IsFinished(fut[f]) /\ PromiseSetResult(f, v)) => Refused(f)
    /\ \A f \in Futs, e \in UserExcs :
          (IsFinished(fut[f]) /\ PromiseSetException(f, e)) => Refused(f)
    /\ \A f \in Futs, a \in CancelInsts \cup {NoArg} :
          (IsFinished(fut[f]) /\ PromiseCancel(f, a)) => Refused(f)
    /\ \A t \in Tasks, a \in CancelInsts \cup {NoArg} :
          (IsFinished(fut[t]) /\ CancelTask(t, a)) => Refused(t)

SelfCancels == prog["t2"][1].op = "cancel"

\* the loop runs the first step of t2
FirstStepOfT2 ==
    /\ IsTick
    /\ Head(queue).cb = StepCb("t2")
    /\ coro["t2"].st = "CORO_CREATED"
    /\ fut["t2"].tag = "scheduled"

StepsOfT2(q) == SelectSeq(q, LAMBDA e : e.cb = StepCb("t2"))

C13_Step ==
    (SelfCancels /\ FirstStepOfT2) =>
        /\ StepsOfT2(queue') = <<>>
        /\ \A h \in 1..Len(handles) : handles[h] = "queued" => handles'[h] # "cancelled"
        /\ IsCancelled(fut'["t2"]) => fut'["t2"].exc = fut["f1"].exc
        /\ IF prog["t2"][1].catch
           THEN IF IsPending(fut["f1"])
                THEN /\ fut'["t2"].tag = "running"
                     /\ fut'["t2"].waiting_on = "f1"
                     /\ queue' = Tail(queue)
                ELSE Outcome(fut["f1"]) = NoExc => fut'["t2"].tag = "success"
           ELSE /\ fut'["t2"].tag = "failed"
                /\ fut'["t2"].exc = SelfCancelForbidden

\* C13: Task.cancel called by the task's own coroutine step raises
\* SelfCancelForbidden there: it cancels nothing and enqueues no step; a
\* coroutine that catches it goes on as if it had not called, one that does
\* not ends its task failed with SelfCancelForbidden, not with Cancelled
C13_SelfCancel == [][C13_Step]_vars

\* the coroutine of t2 called cancel on t2 and did not catch what it raised
C13_Witness ==
    /\ SelfCancels
    /\ ~prog["t2"][1].catch
    /\ fut["t2"].tag = "failed"
    /\ fut["t2"].exc = SelfCancelForbidden

\* the handle of the notification of cb scheduled by the finished x, 0 if none
NotificationOf(x, cb) ==
    LET i == SeqIndex([k \in 1..Len(fut[x].sched) |-> fut[x].sched[k][1]], cb) IN
    IF i = 0 THEN 0 ELSE fut[x].sched[i][2]

\* remove_callback on a finished future whose notification of the callback
\* is still in the ready queue takes that entry, and no other, out of it
C15_Revokes ==
    \A x \in CbObjs, n \in UserCbs :
        LET h == NotificationOf(x, UserCb(n)) IN
        (/\ IsFinished(fut[x])
         /\ h # 0
         /\ handles[h] = "queued"
         /\ UserRemoveCallback(x, n)) =>
            /\ handles' = [handles EXCEPT ![h] = "cancelled"]
            /\ queue' = SelectSeq(queue, LAMBDA e : e.id # h)
            /\ Len(queue') = Len(queue) - 1
            /\ err' = Ok

\* a revoked handle stays revoked, and the loop invokes nothing but the
\* oldest entry of the ready queue
C15_NeverInvoked ==
    /\ \A h \in 1..Len(handles) : handles[h] = "cancelled" => handles'[h] = "cancelled"
    /\ \A i \in 1..Len(queue) : handles[queue[i].id] = "queued"
    /\ calls' # calls =>
          /\ IsTick
          /\ ~IsStepCb(Head(queue).cb)
          /\ handles'[Head(queue).id] = "executed"
          /\ calls' = Append(calls, <<Head(queue).cb, Head(queue).arg>>)

\* the loop invokes the user callback at the head of the ready queue
C15_OthersRun ==
    (IsTick /\ ~IsStepCb(Head(queue).cb)) =>
        calls' = Append(calls, <<Head(queue).cb, Head(queue).arg>>)

\* C15: remove_callback(cb) after the future completed and before the loop
\* has run the notification of cb revokes that notification: cb is never
\* invoked, and the notifications of the other callbacks stay queued and run
C15_RemoveAfterCompletion ==
    [][C15_Revokes /\ C15_NeverInvoked /\ C15_OthersRun]_vars

\* no task exists, so every handle is the notification of a user callback of
\* f1: one was revoked by remove_callback, the other has run, and the
\* callback of the revoked one was not invoked
C15_Witness ==
    /\ \A t \in Tasks : ~Exists(t)
    /\ IsFinished(fut["f1"])
    /\ queue = <<>>
    /\ \E h, g \in 1..Len(handles) : handles[h] = "cancelled" /\ handles[g] = "executed"
    /\ \E n \in UserCbs : calls = << <<UserCb(n), "f1">> >>

\* while the future is pending both reads fail with FutureNotReady
C18_Pending ==
    \A x \in Objs :
        (Exists(x) /\ IsPending(fut[x])) =>
            /\ FutureResult(fut[x]) = Raises(Exc("FutureNotReady", 0))
            /\ FutureException(fut[x]) = Raises(Exc("FutureNotReady", 0))

\* in the state the call returns in, before any step of the loop
C18_AfterSetResult ==
    \A f \in Futs, v \in Vals :
        (IsPending(fut[f]) /\ PromiseSetResult(f, v)) =>
            /\ IsFinished(fut'[f])
            /\ FutureResult(fut'[f]) = Returns(v)
            /\ FutureException(fut'[f]) = Returns(NoExc)
            /\ calls' = calls

C18_AfterSetException ==
    \A f \in Futs, e \in UserExcs :
        (IsPending(fut[f]) /\ PromiseSetException(f, e)) =>
            /\ IsFinished(fut'[f])
            /\ FutureException(fut'[f]) = Returns(e)
            /\ FutureResult(fut'[f]) = Raises(e)
            /\ calls' = calls

\* C18: result() and exception() follow the state synchronously: both fail
\* with FutureNotReady while the future is pending; right after set_result(v),
\* before any callback has run, is_finished is true, result() returns v and
\* exception() returns None; right after set_exception(e), exception()
\* returns e and result() raises e
C18_SynchronousReads ==
    []C18_Pending /\ [][C18_AfterSetResult /\ C18_AfterSetException]_vars

\* a future was completed with a value while its callback is still waiting in
\* the ready queue, and result() already returns the value
C18_Witness ==
    \E f \in Futs :
        /\ fut[f].tag = "success"
        /\ FutureResult(fut[f]) = Returns(fut[f].val)
        /\ fut[f].sched # <<>>
        /\ \A i \in 1..Len(fut[f].sched) : handles[fut[f].sched[i][2]] = "queued"

\* set_exception with a Cancelled instance raises and leaves the future, its
\* callbacks and the ready queue as they were
C19_Refused ==
    \A f \in Futs, e \in CancelInsts :
        PromiseSetException(f, e) =>
            /\ err'.kind = "TypeError"
            /\ fut' = fut
            /\ queue' = queue
            /\ handles' = handles

\* a plain future becomes failed(Cancelled) only in a cancel call, made on it
\* or on a task whose chain of awaited futures ends in it
C19_OnlyCancel ==
    \A f \in Futs :
        (~IsCancelled(fut[f]) /\ IsCancelled(fut'[f])) =>
            /\ last'.op = "cancel"
            /\ last'.chain[Len(last'.chain)] = f

\* C19: Promise.set_exception with a Cancelled exception is refused with an
\* error and leaves the future pending, its callbacks registered and the
\* ready queue as it was; a future becomes failed(Cancelled) only through
\* cancel
C19_NoManualCancelled == [][C19_Refused /\ C19_OnlyCancel]_vars

\* set_exception(Cancelled) has just been refused on a pending future that
\* has a callback registered
C19_Witness ==
    /\ err.kind = "TypeError"
    /\ queue = <<>>
    /\ \E f \in Futs : IsPending(fut[f]) /\ fut[f].cbs # <<>>

\* the resumptions the coroutine of t has had: send and throw
Resumptions(c) == c.sends + c.throws

\* a running task is suspended at the await of the future it waits on, and
\* once that future is finished a step of the task is in the ready queue
C20_Suspended ==
    \A t \in Tasks :
        fut[t].tag = "running" =>
            /\ coro[t].st = "CORO_SUSPENDED"
            /\ prog[t][coro[t].pc].op = "await"
            /\ prog[t][coro[t].pc].target = fut[t].waiting_on
            /\ IsFinished(fut[fut[t].waiting_on]) => StepEntries(t) # {}

\* every await the coroutine has gone past is of a finished future
C20_NotPastPending ==
    \A t \in Tasks :
        \A j \in 1..Len(prog[t]) :
            (/\ Exists(t)
             /\ prog[t][j].op = "await"
             /\ j < coro[t].pc) => IsFinished(fut[prog[t][j].target])

\* the coroutine of a running task changes only in a tick that runs a step
\* of the task, after the awaited future has finished; the tick resumes it
\* once and takes it past that await
C20_Step ==
    \A t \in Tasks :
        (fut[t].tag = "running" /\ coro'[t] # coro[t]) =>
            /\ IsTick
            /\ Head(queue).cb = StepCb(t)
            /\ IsFinished(fut[fut[t].waiting_on])
            /\ Resumptions(coro'[t]) = Resumptions(coro[t]) + 1
            /\ \/ IsFinished(fut'[t])
               \/ fut'[t].tag = "running" /\ coro'[t].pc > coro[t].pc

\* C20: the coroutine of a running task advances only in a loop tick that
\* follows the completion of the future it waits on: the call that completes
\* the future does not resume it, the completion puts a step in the ready
\* queue and the tick that runs it resumes the coroutine once, past that
\* await, and the coroutine is never past an await of a pending future
C20_ResumeAfterCompletion ==
    [](C20_Suspended /\ C20_NotPastPending) /\ [][C20_Step]_vars

\* a task was resumed after the completion of the first future it awaited
\* and now waits on the second
C20_Witness ==
    \E t \in Tasks :
        /\ fut[t].tag = "running"
        /\ coro[t].sends = 2
        /\ coro[t].pc = 2
        /\ ~IsFinished(fut[fut[t].waiting_on])

\* the coroutine of t ends in this step: the loop runs a step of t and the
\* coroutine is closed after it
CoroutineEnds(t) ==
    /\ IsTick
    /\ Head(queue).cb = StepCb(t)
    /\ coro[t].st # "CORO_CLOSED"
    /\ coro'[t].st = "CORO_CLOSED"

\* what was raised at the await the coroutine ended at: the inner cancel
\* thrown into it, when that is the await it was resumed at, or the exception
\* of the awaited future
RaisedAtAwait(t) ==
    IF /\ Head(queue).ic # NoExc
       /\ coro[t].st = "CORO_SUSPENDED"
       /\ coro'[t].pc = coro[t].pc
    THEN Head(queue).ic
    ELSE fut[prog[t][coro'[t].pc].target].exc

C21_Step ==
    \A t \in Tasks :
        CoroutineEnds(t) =>
            LET i == prog[t][coro'[t].pc] IN
            /\ IsFinished(fut'[t])
            /\ i.op = "return" => fut'[t].tag = "success" /\ fut'[t].val = i.val
            /\ i.op = "raise" => fut'[t].tag = "failed" /\ fut'[t].exc = i.exc
            /\ i.op = "await" => fut'[t].tag = "failed" /\ fut'[t].exc = RaisedAtAwait(t)

\* C21: when the coroutine of a task returns v the task becomes success with
\* v, when it raises e the task becomes failed with that same e, and the
\* task is terminal in the very step in which the coroutine ended
C21_CoroutineOutcome == [][C21_Step]_vars

\* t2 raised its own exception and is failed with it; t1 caught it at its
\* await, returned, and is success with the value it returned
C21_Witness ==
    /\ prog["t2"][2].op = "raise"
    /\ fut["t2"].tag = "failed"
    /\ fut["t2"].exc = prog["t2"][2].exc
    /\ fut["t1"].tag = "success"
    /\ fut["t1"].val = prog["t1"][3].val

\* the loop runs a step of t
StepOf(t) == IsTick /\ Head(queue).cb = StepCb(t)

C22_Step ==
    /\ IsTick => err' # CouldNotSchedule
    /\ \A t \in Tasks :
          StepOf(t) =>
              /\ coro'[t].st = "CORO_SUSPENDED" =>
                    IsPending(fut[prog[t][coro'[t].pc].target])
              /\ fut'[t].tag = "running" =>
                    /\ IsPending(fut'[fut'[t].waiting_on])
                    /\ SeqIndex(fut'[fut'[t].waiting_on].cbs, StepCb(t)) # 0

\* C22: an await of a future that is already finished does not suspend the
\* coroutine: a step leaves the coroutine suspended only at an await of a
\* future that was pending, a task enters the running state only with a
\* pending waiting_on that holds its step callback, and no step of the loop
\* calls add_callback on a finished future
C22_NoSuspendOnTerminal == [][C22_Step]_vars

\* t2 went past its await of f1 and ended in its first resumption: f1 was
\* finished when t2 awaited it
C22_Witness ==
    /\ IsFinished(fut["t2"])
    /\ coro["t2"].st = "CORO_CLOSED"
    /\ coro["t2"].pc = 2
    /\ coro["t2"].sends = 1
    /\ coro["t2"].throws = 0

\* the loop resumes t at an await inside a handler, and what is raised at
\* that await is a Cancelled: the one the awaited future was cancelled with,
\* or an inner cancel
CatchesCancel(t) ==
    /\ StepOf(t)
    /\ fut[t].tag = "running"
    /\ prog[t][coro[t].pc].catch
    /\ IsFinished(fut[fut[t].waiting_on])
    /\ IsCancelled(fut[fut[t].waiting_on]) \/ Head(queue).ic # NoExc

\* how the code after the handler ends, from instruction n on: the tag of
\* the task and the value, exception or future that goes with it
RECURSIVE OwnOutcome(_, _)
OwnOutcome(t, n) ==
    LET i == prog[t][n] IN
    CASE i.op = "return" -> <<"success", i.val>>
      [] i.op = "raise" -> <<"failed", i.exc>>
      [] OTHER ->
            IF IsPending(fut[i.target]) THEN <<"running", i.target>>
            ELSE IF fut[i.target].tag = "failed" /\ ~i.catch
            THEN <<"failed", fut[i.target].exc>>
            ELSE OwnOutcome(t, n + 1)

\* the state of x as a pair of the same shape
Shown(s) ==
    CASE s.tag = "success" -> <<"success", s.val>>
      [] s.tag = "failed" -> <<"failed", s.exc>>
      [] OTHER -> <<s.tag, s.waiting_on>>

C23_Step ==
    \A t \in Tasks :
        CatchesCancel(t) =>
            /\ Shown(fut'[t]) = OwnOutcome(t, coro[t].pc + 1)
            /\ Shown(fut'[fut[t].waiting_on]) = Shown(fut[fut[t].waiting_on])

\* C23: when the coroutine of a cancelled task catches the Cancelled raised
\* at its await, the task ends with what the coroutine does next (it
\* returns, raises, or waits on the next future), not cancelled by that
\* Cancelled, and the future it was waiting on stays as it was:
\* failed(Cancelled) when the cancel went through it
C23_CaughtCancel == [][C23_Step]_vars

\* t2 was cancelled while it waited on f1, caught the Cancelled and
\* returned: t2 is success and f1 is failed(Cancelled)
C23_Witness ==
    /\ last.op = "cancel"
    /\ last.obj = "t2"
    /\ last.pre = "running"
    /\ prog["t2"][1].catch
    /\ fut["t2"].tag = "success"
    /\ IsCancelled(fut["f1"])

\* the step of t has found that the coroutine yielded the task itself
DetectsSelfAwait(t) ==
    /\ StepOf(t)
    /\ coro'[t].st = "CORO_SUSPENDED"
    /\ prog[t][coro'[t].pc].target = t

C24_Step ==
    \A t \in Tasks :
        DetectsSelfAwait(t) =>
            /\ err'.kind = "RuntimeError"
            /\ fut'[t].tag = "failed"

\* C24: when a step finds that the coroutine awaits its own task, the error
\* is raised and the task is terminated: after the step it is failed, not
\* left pending with no wake-up registered
C24_ProgrammingError == [][C24_Step]_vars

\* the resumptions the coroutine of t has had
Resumed(t) == coro[t].sends + coro[t].throws

\* C25: during every step of a Task the current-task binding is that Task, so
\* that each of several interleaved coroutines sees its own Task whenever it
\* is resumed, and outside the steps the binding is what it was before them:
\* no Task at all.
C25_CurrentTask ==
    /\ current = NoObj
    /\ \A t \in Tasks : Resumed(t) > 0 => coro[t].saw = t

\* the two tasks have run interleaved: t1 was resumed, then t2 ran to its end,
\* then t1 was resumed again, and each saw itself
C25_Witness ==
    /\ Resumed("t1") >= 2
    /\ Resumed("t2") >= 1
    /\ coro["t2"].st = "CORO_CLOSED"
    /\ coro["t1"].saw = "t1"
    /\ coro["t2"].saw = "t2"
    /\ current = NoObj

\* the instruction the coroutine of t runs first when the loop resumes it: its
\* first, or the one after the await it is suspended at, 0 when the resumption
\* ends at that await or the step does not reach the coroutine
FirstRun(t) ==
    IF fut[t].tag \notin {"scheduled", "running"} THEN 0
    ELSE IF coro[t].st = "CORO_CREATED" THEN 1
    ELSE IF Head(queue).ic = NoExc /\ IsFinished(fut[fut[t].waiting_on])
              /\ (Outcome(fut[fut[t].waiting_on]) = NoExc \/ prog[t][coro[t].pc].catch)
         THEN coro[t].pc + 1
    ELSE 0

\* x is a task that reaches t along the chain of awaited futures
Reaches(x, t) == \E i \in 2..Len(Chain(x)) : Chain(x)[i] = t

\* the loop runs a step of t in which the coroutine of t calls cancel on a
\* task that awaits t, directly or through other tasks
CrossCancels(t) ==
    /\ StepOf(t)
    /\ FirstRun(t) # 0
    /\ prog[t][FirstRun(t)].op = "cancel"
    /\ Reaches(prog[t][FirstRun(t)].target, t)

\* a task that is success or failed has a coroutine that has ended or was
\* never started
C31_State ==
    \A t \in Tasks :
        IsFinished(fut[t]) => coro[t].st \in {"CORO_CLOSED", "CORO_CREATED"}

\* a task becomes terminal in the step in which its coroutine ends, or in a
\* call that finds the coroutine not started and leaves it so
C31_Completes ==
    \A t \in Tasks :
        (IsPending(fut[t]) /\ IsFinished(fut'[t])) =>
            \/ CoroutineEnds(t)
            \/ coro[t].st = "CORO_CREATED" /\ coro'[t] = coro[t]

\* the first step of t cancels a task that awaits t, so that the cancel comes
\* back to t while t is scheduled and its coroutine is executing: the call is
\* refused, by the assertion on the handle when the loop has marked the handle
\* executed and by _set_result when it has not, and t goes on from the call
\* as its coroutine does
C31_Rejected ==
    \A t \in Tasks :
        (CrossCancels(t) /\ fut[t].tag = "scheduled") =>
            /\ Tick => coro'[t].got = AssertionErr
            /\ TickAfter => coro'[t].got = RuntimeErr
            /\ IF prog[t][1].catch
               THEN Shown(fut'[t]) = OwnOutcome(t, 2)
               ELSE Shown(fut'[t]) = <<"failed", coro'[t].got>>
            /\ StepEntries(t) = {} => \A i \in 1..Len(queue') : queue'[i].cb # StepCb(t)

\* C31: a Task is never completed while its coroutine is in the middle of a
\* resumption: a Task that is success or failed has a coroutine that has
\* returned, has raised or was never started, and an attempt to set the
\* result of a Task whose coroutine is executing is rejected and leaves the
\* state of the Task as it was
C31_NotMidFrame == []C31_State /\ [][C31_Completes /\ C31_Rejected]_vars

\* the first step of t2 cancelled t1, which awaited t2; _set_result refused to
\* complete t2, the coroutine caught the error and t2 now waits on f1
C31_Witness ==
    /\ prog["t2"][1].op = "cancel"
    /\ prog["t2"][1].catch
    /\ coro["t2"].got = RuntimeErr
    /\ fut["t2"].tag = "running"
    /\ fut["t2"].waiting_on = "f1"
    /\ fut["t1"].tag = "running"

C38_Step ==
    \A t \in Tasks :
        CrossCancels(t) =>
            /\ coro'[t].got = SelfCancelForbidden
            /\ \A i \in 1..Len(queue') : queue'[i].cb # StepCb(t)
            /\ IF prog[t][FirstRun(t)].catch
               THEN Shown(fut'[t]) = OwnOutcome(t, FirstRun(t) + 1)
               ELSE Shown(fut'[t]) = <<"failed", SelfCancelForbidden>>

\* C38: a cancel that comes back to a Task along the awaited chain while the
\* coroutine of that Task is executing (the coroutine of A cancels B, and B
\* waits on A) is handled like a cancel of A by itself: the call ends in
\* SelfCancelForbidden, no step of A is enqueued and A is not completed by it
C38_CrossCancel == [][C38_Step]_vars

\* the futures that hold the step callback of t: among the callbacks of a
\* pending future, or among the scheduled handles of a finished one
SubscribedOn(f, t) ==
    {x \in Objs : \/ SeqIndex(f[x].cbs, StepCb(t)) # 0
                  \/ SeqIndex(SchedCbs(f[x]), StepCb(t)) # 0}

\* a step of a running task takes its callback off the future it waited on
C32_Step ==
    \A t \in Tasks :
        (StepOf(t) /\ fut[t].tag = "running") =>
            fut[t].waiting_on \notin SubscribedOn(fut', t)

\* with the ready queue empty a running task is subscribed on its waiting_on
\* and on nothing else, and a terminal task on nothing
C32_Quiescent ==
    queue = <<>> =>
        \A t \in Tasks :
            /\ fut[t].tag = "running" => SubscribedOn(fut, t) = {fut[t].waiting_on}
            /\ IsFinished(fut[t]) => SubscribedOn(fut, t) = {}

\* C32: after every step of a Task its step callback is no longer subscribed,
\* as a pending callback or as a scheduled handle, on the Future the Task was
\* waiting on before the step; at quiescence a running Task is subscribed on
\* exactly one Future, its waiting_on, and a terminal Task on none
C32_Unsubscribed == []C32_Quiescent /\ [][C32_Step]_vars

C34_Step ==
    \A t \in Tasks :
        StepOf(t) =>
            /\ fut[t].tag \in {"scheduled", "running"}
            /\ Head(queue).ic # NoExc =>
                  /\ fut[t].tag = "running"
                  /\ IsFinished(fut[fut[t].waiting_on])

\* C34: the guards at the start of a step never fire: every step callback the
\* loop executes finds its Task scheduled or running, and every step that
\* carries an inner cancel finds the waiting_on of the Task finished
C34_GuardsNeverFire == [][C34_Step]_vars

\* the step callback of t is among the callbacks of its pending waiting_on
Subscribed(t) ==
    /\ IsPending(fut[fut[t].waiting_on])
    /\ SeqIndex(fut[fut[t].waiting_on].cbs, StepCb(t)) # 0

\* C35: no wake-up is lost: a running Task either has its step subscribed on
\* a waiting_on that is still pending, or has exactly one step callback in the
\* ready queue (which holds the un-revoked callbacks only)
C35_NoLostWakeup ==
    \A t \in Tasks :
        fut[t].tag = "running" =>
            \/ Subscribed(t)
            \/ Cardinality(StepEntries(t)) = 1

\* the user callbacks among cbs, in their order
UserCbSeq(cbs) == SelectSeq(cbs, LAMBDA cb : ~IsStepCb(cb))

\* the entries of the ready queue q that notify the user callback n of x
Notifications(q, x, n) == {i \in 1..Len(q) : q[i].cb = UserCb(n) /\ q[i].arg = x}

\* the user callbacks of a task stay registered, in their order, through the
\* changes of its state and through every tick and cancel that leaves it
\* pending
C36_Survive ==
    \A t \in Tasks :
        (/\ IsBaseTaskState(fut[t])
         /\ IsBaseTaskState(fut'[t])
         /\ fut'[t].tag # fut[t].tag \/ IsTick \/ last'.op = "cancel") =>
            UserCbSeq(fut'[t].cbs) = UserCbSeq(fut[t].cbs)

\* the step or call that ends the task schedules each of them once, and
\* nothing else of the user's
C36_Scheduled ==
    \A t \in Tasks, n \in UserCbs :
        (IsBaseTaskState(fut[t]) /\ IsFinished(fut'[t])) =>
            /\ Notifications(queue, t, n) = {}
            /\ Cardinality(Notifications(queue', t, n)) = Count(fut[t].cbs, UserCb(n))
            /\ Count(SchedCbs(fut'[t]), UserCb(n)) = Count(fut[t].cbs, UserCb(n))
            /\ Count(fut[t].cbs, UserCb(n)) <= 1

\* a callback is notified once at most: what is in the ready queue and what
\* has been invoked
C36_Once ==
    \A t \in Tasks, n \in UserCbs :
        Cardinality(Notifications(queue, t, n)) + Count(calls, <<UserCb(n), t>>) <= 1

\* C36: the callbacks registered on a Task while it is created, scheduled or
\* running survive the changes of its state, and each is scheduled exactly
\* once when the Task becomes terminal, whichever way it ends
C36_CallbacksSurvive == []C36_Once /\ [][C36_Survive /\ C36_Scheduled]_vars

\* a callback was registered on t2 before t2 was scheduled; t2 went from
\* created to scheduled to running, was cancelled while running, and the
\* callback has been invoked once
C36_Witness ==
    /\ last.op = "cancel"
    /\ last.obj = "t2"
    /\ last.pre = "running"
    /\ IsCancelled(fut["t2"])
    /\ handles[1] = "executed"
    /\ \E n \in UserCbs : calls = << <<UserCb(n), "t2">> >>
    /\ queue = <<>>

(***************************************************************************)
(* The task group (src/aio/task_group.py).  It is written against the      *)
(* futures of src/aio/future.py: Future, Task, shield, _create_task.       *)
(* Objects are pairs <<kind, n>>.                                          *)
(***************************************************************************)
\* inbound cancels of the enclosing task in one behaviour
MaxInbound == 1
\* calls the code outside the loop makes on the promises in one behaviour
MaxWrites == 2
\* calls the code outside the loop makes on plain futures in one behaviour
MaxCalls == 4

Main == <<"main", 0>>                    \* the task whose coroutine opens the scope
JoinTask == <<"join", 0>>                \* join_task = _create_task(tg._join())
Child(i) == <<"child", i>>
ChildIds == {1, 2}
Late == <<"late", 0>>                    \* the task a child that holds the group spawns
Children == {Child(i) : i \in ChildIds} \cup {Late}
BodyFut == <<"body", 0>>                 \* the future the body of the scope awaits
ChildFut(i) == <<"p", i>>                \* the future child i awaits
Shield(k) == <<"shield", k>>             \* the k-th future made by shield(join_task)
Waiter(k) == <<"waiter", k>>             \* the future of the k-th wait of the iterator
StartedFut == <<"started", 0>>           \* Late._started_promise.future
Caller == <<"caller", 0>>                \* the task that runs execute_sync_callable
ExecWaiter == <<"executor-waiter", 0>>   \* waiter.future of execute_sync_callable
WaitShield == Shield(0)                  \* shield(task._started_promise.future)
OTasks == {Main, JoinTask, Caller} \cup Children
OPlain ==
    {BodyFut} \cup {ChildFut(i) : i \in ChildIds}
        \cup {Shield(k) : k \in 1..(MaxInbound + 1)}
        \cup {Waiter(k) : k \in 1..Cardinality(Children)}
        \cup {StartedFut, WaitShield, ExecWaiter}
OObjs == OTasks \cup OPlain
NoO == <<"none", 0>>

\* callbacks: Task._schedule_execution, Task._execute_coroutine_step, the
\* future_done_cb closure of one shield call, the callback of iter_done_futures
SchedCb(t) == <<"sched", t>>
OStepCb(t) == <<"step", t>>
ShieldCb(k) == <<"shield_cb", Shield(k)>>
OnDoneCb == <<"on_done", JoinTask>>
\* _ignore_feature_finished_error with the method of the waiter's promise
\* that on_result_from_executor has chosen for the outcome o of cfuture
IgnoreCb(o) == <<"ignore", <<o, 0>>>>
\* a callback of the code outside the loop
UserOCb(n) == <<"user", n>>

\* exceptions: at tells the Cancelled made for one future from that of another,
\* msg is the message of a Cancelled, inner the exceptions of a MultiError
OExc(k, i, x) == [kind |-> k, id |-> i, at |-> x, msg |-> "none", inner |-> <<>>]
ONone == OExc("None", 0, NoO)
OOk == OExc("ok", 0, NoO)
OFinishedError == OExc("FutureFinishedError", 0, NoO)
ORuntimeError == OExc("RuntimeError", 0, NoO)
OAssertionError == OExc("AssertionError", 0, NoO)
BodyExc == OExc("BodyError", 0, Main)
ChildExc(i) == OExc("ChildError", i, Child(i))
\* Cancelled(msg) made by Future._cancel of x
OCancelled(msg, x) == [OExc("Cancelled", 0, x) EXCEPT !.msg = msg]
OIsCancelledExc(e) == e.kind = "Cancelled"
OIsMultiError(e) == e.kind = "MultiError"

\* aio.exceptions.create_multi_error: the exceptions in order, those of a
\* nested MultiError in its place
RECURSIVE Flatten(_)
Flatten(es) ==
    IF es = <<>> THEN <<>>
    ELSE (IF OIsMultiError(Head(es)) THEN Head(es).inner ELSE <<Head(es)>>)
            \o Flatten(Tail(es))
CreateMultiError(es) ==
    [OExc("MultiError", 0, NoO) EXCEPT !.inner = Flatten(es)]

\* the coroutines of the children
OAwait(x) == [op |-> "await", target |-> x, exc |-> ONone]
OReturn == [op |-> "return", target |-> NoO, exc |-> ONone]
\* tg.spawn(late()) and await tg.wait_started(late()), in a child that holds tg
OSpawnLate == [op |-> "spawn", target |-> NoO, exc |-> ONone]
OWaitStarted == [op |-> "wait_started", target |-> WaitShield, exc |-> ONone]
ORaise(e) == [op |-> "raise", target |-> NoO, exc |-> e]
ChildPrograms(i) ==
    { <<OAwait(ChildFut(i)), OReturn>>,
      <<OAwait(ChildFut(i)), ORaise(ChildExc(i))>>,
      <<ORaise(ChildExc(i))>>,
      <<OReturn>> }
\* the coroutines of a child that was given the group
HolderPrograms ==
    { <<OAwait(ChildFut(1)), OSpawnLate, OReturn>>,
      <<OAwait(ChildFut(1)), OWaitStarted, OReturn>>,
      <<OWaitStarted, OReturn>> }
\* the coroutines of the task that child spawns
LatePrograms == { <<OAwait(ChildFut(2)), OReturn>> }

OWorld ==
    [fut |-> ofut, co |-> oco, queue |-> oqueue, group |-> group, doneq |-> doneq,
     err |-> OOk, scope |-> scope, pool |-> pool]

ORaised(w, e) == [w EXCEPT !.err = e]

\* no call of execute_sync_callable yet: no cfuture, nothing submitted
NoPool == [cfuture |-> "none", jobs |-> {}]

\* Future.__init__ and Task.__init__; done says that _value or _exc is set
OPending ==
    [state |-> "running", done |-> FALSE, exc |-> ONone, cbs |-> {},
     waiting_on |-> NoO, started |-> FALSE]
OAbsent == [OPending EXCEPT !.state = "absent"]
OCreated == [OPending EXCEPT !.state = "created"]

\* Future.is_finished, Future.is_cancelled
OIsFinished(s) == s.done
OIsCancelled(s) == s.done /\ OIsCancelledExc(s.exc)

\* loop.call_soon; src/aio/future.py keeps no handle
OCallSoon(w, cb, arg) == [w EXCEPT !.queue = Append(@, [cb |-> cb, arg |-> arg])]

\* the callbacks of a set in the order the set yields them: by rank
RECURSIVE InOrder(_, _)
InOrder(cbs, r) ==
    IF cbs = {} THEN <<>>
    ELSE LET c == CHOOSE x \in cbs : \A y \in cbs : r[x] <= r[y] IN
         <<c>> \o InOrder(cbs \ {c}, r)

\* Future.add_callback
OAddCallback(w, x, cb) ==
    IF cb \in w.fut[x].cbs THEN w
    ELSE IF OIsFinished(w.fut[x]) THEN OCallSoon(w, cb, x)
    ELSE [w EXCEPT !.fut[x].cbs = @ \cup {cb}]

\* Future.remove_callback: set.remove raises KeyError, which the except
\* ValueError clause does not catch
ORemoveCallback(w, x, cb) ==
    IF cb \in w.fut[x].cbs THEN [w EXCEPT !.fut[x].cbs = @ \ {cb}]
    ELSE ORaised(w, OExc("KeyError", 0, NoO))

\* Future._call_cbs: a call_soon per callback of the set
OCallCbs(w, x, r) ==
    LET cbs == InOrder(w.fut[x].cbs, r) IN
    [w EXCEPT !.queue = @ \o [i \in 1..Len(cbs) |-> [cb |-> cbs[i], arg |-> x]]]

\* Future._set_result
OFutureSetResult(w, x, exc, r) ==
    IF OIsFinished(w.fut[x]) THEN ORaised(w, OFinishedError)
    ELSE OCallCbs([w EXCEPT !.fut[x].state = "finished",
                            !.fut[x].done = TRUE,
                            !.fut[x].exc = exc], x, r)

\* _started_promise.set_result(None); the started future is kept as an object
\* for Late, the one task whose started future gets a callback, and as the
\* flag started for the others
OStartedSet(w, t, r) ==
    LET w1 == [w EXCEPT !.fut[t].started = TRUE] IN
    IF t = Late THEN OFutureSetResult(w1, StartedFut, ONone, r) ELSE w1

\* Task._set_result: the started promise is completed with the task
OStarted(w, t, r) ==
    IF w.err # OOk \/ w.fut[t].started THEN w ELSE OStartedSet(w, t, r)
OTaskSetResult(w, t, exc, r) == OStarted(OFutureSetResult(w, t, exc, r), t, r)

OSetResult(w, x, exc, r) ==
    IF x \in OTasks THEN OTaskSetResult(w, x, exc, r) ELSE OFutureSetResult(w, x, exc, r)

\* Future._cancel
OFutureCancel(w, x, msg, r) == OSetResult(w, x, OCancelled(msg, x), r)

\* Task._cancel
RECURSIVE OTaskCancel(_, _, _, _)
OCancel(w, x, msg, r) ==
    IF x \in OTasks THEN OTaskCancel(w, x, msg, r) ELSE OFutureCancel(w, x, msg, r)
OTaskCancel(w, t, msg, r) ==
    IF OIsFinished(w.fut[t]) THEN ORaised(w, OFinishedError)
    ELSE LET w1 == [w EXCEPT !.fut[t].state = "finishing"] IN
         IF w.fut[t].waiting_on # NoO THEN OCancel(w1, w.fut[t].waiting_on, msg, r)
         ELSE OFutureCancel(w1, t, msg, r)

\* Task._schedule_execution
OScheduleExecution(w, t) ==
    LET w1 == OCallSoon(w, OStepCb(t), NoO) IN
    IF w.fut[t].state = "created" THEN [w1 EXCEPT !.fut[t].state = "scheduled"] ELSE w1

\* _create_task: Task.__init__, which makes the started promise, and
\* _schedule_execution
OCreateTask(w, t) ==
    OScheduleExecution([w EXCEPT !.fut[t] = OCreated,
                                 !.fut[StartedFut] = IF t = Late THEN OPending ELSE @,
                                 !.co[t] = [@ EXCEPT !.st = "CORO_CREATED"]], t)

\* _FuturePromise.set_exception
OPromiseSetException(w, x, e, r) ==
    IF OIsCancelledExc(e) THEN ORaised(w, OExc("ValueError", 0, NoO)) ELSE OSetResult(w, x, e, r)

\* the future_done_cb of shield(future), with the promise of Shield(k)
OShieldDone(w, x, k, r) ==
    IF ~OIsFinished(w.fut[x]) THEN ORaised(w, OAssertionError)
    ELSE IF w.fut[x].exc # ONone THEN OPromiseSetException(w, Shield(k), w.fut[x].exc, r)
    ELSE OSetResult(w, Shield(k), ONone, r)

\* shield(future): a new promise, and future_done_cb subscribed on the future
OShield(w, x, k) == OAddCallback([w EXCEPT !.fut[Shield(k)] = OPending], x, ShieldCb(k))

(***************************************************************************)
(* TaskGroup and the coroutines that run in the scope                      *)
(***************************************************************************)
OEnded(w, kind, x, exc) == [w |-> w, kind |-> kind, fut |-> x, exc |-> exc]
OClosed(w, t) == [w EXCEPT !.co[t].st = "CORO_CLOSED"]
OReturns(w, t) == OEnded(OClosed(w, t), "return", NoO, ONone)
ORaises(w, t, e) == OEnded(OClosed(w, t), "raise", NoO, e)
OYields(w, t, x) == OEnded([w EXCEPT !.co[t].st = "CORO_SUSPENDED"], "yield", x, ONone)

\* what Future.__await__ does when the coroutine is resumed in it
OAwaited(s) == IF ~OIsFinished(s) THEN OExc("FutureNotReady", 0, NoO) ELSE s.exc

\* spawn without _check_not_finalized
OSpawnUnchecked(w, c) == [OCreateTask(w, c) EXCEPT !.group.tasks = Append(@, c)]

\* TaskGroup._check_not_finalized and TaskGroup.spawn
OSpawn(w, c) ==
    IF w.group.finalized THEN ORaised(w, ORuntimeError)
    ELSE [OCreateTask(w, c) EXCEPT !.group.tasks = Append(@, c)]

\* TaskGroup.cancel: task._cancel(msg) for each task, in order, up to the
\* first that raises
RECURSIVE OGroupCancelFrom(_, _, _, _)
OGroupCancelNext(w, i, msg, r) ==
    IF w.err # OOk THEN w ELSE OGroupCancelFrom(w, i, msg, r)
OGroupCancelFrom(w, i, msg, r) ==
    IF i > Len(w.group.tasks) THEN w
    ELSE OGroupCancelNext(OTaskCancel(w, w.group.tasks[i], msg, r), i + 1, msg, r)
OGroupCancel(w, msg, r) == OGroupCancelFrom(w, 1, msg, r)

\* TaskGroup.wait_started up to its await: the check, spawn, and shield of the
\* started future of the new task
OWaitStartedCall(w, c) ==
    IF w.group.finalized THEN ORaised(w, ORuntimeError)
    ELSE OShield(OSpawn(w, c), StartedFut, 0)

RECURSIVE ChildExec(_, _, _, _)
\* a child whose wait_started spawns and returns at once
ChildExecNoWait(w, p, c, pc) ==
    LET i == p[c][pc] IN
    CASE i.op = "await" ->
            IF ~OIsFinished(w.fut[i.target])
            THEN OYields([w EXCEPT !.co[c].pc = pc], c, i.target)
            ELSE IF w.fut[i.target].exc # ONone
            THEN ORaises([w EXCEPT !.co[c].pc = pc], c, w.fut[i.target].exc)
            ELSE ChildExec(w, p, c, pc + 1)
      [] i.op = "spawn" ->
            IF OSpawn(w, Late).err # OOk
            THEN ORaises([w EXCEPT !.co[c].pc = pc], c, OSpawn(w, Late).err)
            ELSE ChildExec(OSpawn(w, Late), p, c, pc + 1)
      [] i.op = "wait_started" ->
            IF OWaitStartedCall(w, Late).err # OOk
            THEN ORaises([w EXCEPT !.co[c].pc = pc], c, OWaitStartedCall(w, Late).err)
            ELSE ChildExec(OWaitStartedCall(w, Late), p, c, pc + 1)
      [] i.op = "return" -> OReturns([w EXCEPT !.co[c].pc = pc], c)
      [] OTHER -> ORaises([w EXCEPT !.co[c].pc = pc], c, i.exc)

\* the coroutine of a child
ChildExec(w, p, c, pc) ==
    LET i == p[c][pc] IN
    CASE i.op = "await" ->
            IF ~OIsFinished(w.fut[i.target])
            THEN OYields([w EXCEPT !.co[c].pc = pc], c, i.target)
            ELSE IF w.fut[i.target].exc # ONone
            THEN ORaises([w EXCEPT !.co[c].pc = pc], c, w.fut[i.target].exc)
            ELSE ChildExec(w, p, c, pc + 1)
      [] i.op = "spawn" ->
            IF OSpawn(w, Late).err # OOk
            THEN ORaises([w EXCEPT !.co[c].pc = pc], c, OSpawn(w, Late).err)
            ELSE ChildExec(OSpawn(w, Late), p, c, pc + 1)
      [] i.op = "wait_started" ->
            IF OWaitStartedCall(w, Late).err # OOk
            THEN ORaises([w EXCEPT !.co[c].pc = pc], c, OWaitStartedCall(w, Late).err)
            ELSE OYields([OWaitStartedCall(w, Late) EXCEPT !.co[c].pc = pc], c, WaitShield)
      [] i.op = "return" -> OReturns([w EXCEPT !.co[c].pc = pc], c)
      [] OTHER -> ORaises([w EXCEPT !.co[c].pc = pc], c, i.exc)

ChildSend(w, p, c) ==
    IF w.co[c].st = "CORO_CREATED" THEN ChildExec(w, p, c, 1)
    ELSE LET pc == w.co[c].pc
             e == OAwaited(w.fut[p[c][pc].target])
         IN  IF e # ONone THEN ORaises(w, c, e) ELSE ChildExec(w, p, c, pc + 1)

\* iter_done_futures: the queue hands the done futures to the iterator, which
\* waits on a fresh future when the queue is empty
OnDone(w, x, r) ==
    LET k == w.co[JoinTask].got + 1 IN
    IF w.co[JoinTask].pc = "get" /\ ~OIsFinished(w.fut[Waiter(k)])
    THEN OSetResult([w EXCEPT !.co[JoinTask].item = x], Waiter(k), ONone, r)
    ELSE [w EXCEPT !.doneq = Append(@, x)]

\* TaskGroup._join after the iterator is exhausted
JoinFinish(w) ==
    LET tasks == w.group.tasks
        failed == SelectSeq(tasks, LAMBDA t : w.fut[t].exc # ONone)
        excs == [i \in 1..Len(failed) |-> w.fut[failed[i]].exc]
    IN  IF \E i \in 1..Len(tasks) : ~OIsFinished(w.fut[tasks[i]])
        THEN ORaises(w, JoinTask, OAssertionError)
        ELSE IF excs # <<>> THEN ORaises(w, JoinTask, CreateMultiError(excs))
        ELSE OReturns(w, JoinTask)

\* async for _ in iterator
RECURSIVE JoinGet(_)
JoinGet(w) ==
    LET got == w.co[JoinTask].got IN
    IF got = Len(w.group.tasks) THEN JoinFinish(w)
    ELSE IF w.doneq # <<>>
    THEN JoinGet([w EXCEPT !.doneq = Tail(@),
                           !.co[JoinTask].got = got + 1,
                           !.co[JoinTask].seen = Append(@, Head(w.doneq))])
    ELSE OYields([w EXCEPT !.fut[Waiter(got + 1)] = OPending,
                           !.co[JoinTask].pc = "get"], JoinTask, Waiter(got + 1))

\* async with iter_done_futures(*self._tasks): a callback on every task
RECURSIVE JoinSubscribe(_, _)
JoinSubscribe(w, i) ==
    IF i > Len(w.group.tasks) THEN w
    ELSE JoinSubscribe(OAddCallback(w, w.group.tasks[i], OnDoneCb), i + 1)

\* TaskGroup._join
JoinSend(w) ==
    IF w.co[JoinTask].st = "CORO_CREATED"
    THEN JoinGet(JoinSubscribe([w EXCEPT !.group.finalized = TRUE], 1))
    ELSE LET got == w.co[JoinTask].got
             e == OAwaited(w.fut[Waiter(got + 1)])
         IN  IF OIsCancelledExc(e) THEN ORaises(w, JoinTask, ORuntimeError)
             ELSE IF e # ONone THEN ORaises(w, JoinTask, e)
             ELSE JoinGet([w EXCEPT !.co[JoinTask].got = got + 1,
                                    !.co[JoinTask].seen = Append(@, w.co[JoinTask].item)])

\* control leaves the task_group scope, normally or with e, and with it the
\* coroutine of the enclosing task ends
ScopeLeft(w, e, done) ==
    [left |-> TRUE, exc |-> e,
     live |-> {c \in Children : w.fut[c].state # "absent" /\ ~OIsFinished(w.fut[c])},
     raised |-> [i \in 1..Len(done) |-> w.fut[done[i]].exc]]
Leave(w, e) ==
    OEnded(OClosed([w EXCEPT !.scope =
                        ScopeLeft(w, e, SelectSeq(w.group.tasks,
                                       LAMBDA t : w.fut[t].exc.kind = "ChildError"))],
                   Main),
           IF e = ONone THEN "return" ELSE "raise", NoO, e)

\* task_group, line 79: await shield(join_task), the k-th
AwaitShieldNo(w, k) ==
    OYields([OShield(w, JoinTask, k) EXCEPT !.co[Main].shield = k,
                                            !.co[Main].pc = "join"],
            Main, Shield(k))
AwaitShield(w) == AwaitShieldNo(w, w.co[Main].shield + 1)

\* task_group, lines 72 to 79, or the error of tg.cancel leaves the scope
JoinOrLeave(w) ==
    IF w.err # OOk THEN Leave([w EXCEPT !.err = OOk], w.err)
    ELSE AwaitShield(OCreateTask(w, JoinTask))

\* task_group, lines 66 to 79: the body has ended, with body_exc or without
ExitScope(w, be, r) ==
    JoinOrLeave(IF be # ONone
                THEN OGroupCancel([w EXCEPT !.co[Main].body_exc = be], "body", r)
                ELSE w)

\* the body of the scope has ended: the exception of its await, or its own
BodyEnd(w, b, e, r) ==
    ExitScope(w, IF e # ONone THEN e ELSE IF b.raises THEN BodyExc ELSE ONone, r)

\* task_group, lines 81 to 86, or the error of tg.cancel leaves the scope
AwaitAgain(w) ==
    IF w.err # OOk THEN Leave([w EXCEPT !.err = OOk], w.err) ELSE AwaitShield(w)

\* task_group, lines 78 to 96: the enclosing task is resumed with e in
\* await shield(join_task)
JoinEnded(w, e, be, r) ==
    IF e = ONone
    THEN IF ~OIsFinished(w.fut[JoinTask]) THEN Leave(w, OAssertionError)
         ELSE Leave(w, be)
    ELSE IF OIsCancelledExc(e) /\ ~OIsCancelled(w.fut[JoinTask])
    THEN AwaitAgain(OGroupCancel([w EXCEPT !.co[Main].caught = @ + 1], "none", r))
    ELSE IF OIsCancelledExc(e) \/ OIsMultiError(e)
    THEN Leave(w, IF be # ONone THEN CreateMultiError(<<be, e>>) ELSE e)
    ELSE Leave(w, e)
JoinResumed(w, r) ==
    JoinEnded(w, OAwaited(w.fut[Shield(w.co[Main].shield)]), w.co[Main].body_exc, r)

RECURSIVE SpawnAll(_, _)
SpawnAll(w, i) ==
    IF i \notin ChildIds THEN w ELSE SpawnAll(OSpawn(w, Child(i)), i + 1)

\* the body of the scope, entered with the children spawned
BodyStart(w, b, r) ==
    IF b.awaits /\ ~OIsFinished(w.fut[BodyFut])
    THEN OYields([w EXCEPT !.co[Main].pc = "body"], Main, BodyFut)
    ELSE BodyEnd(w, b, IF b.awaits THEN w.fut[BodyFut].exc ELSE ONone, r)

\* the coroutine of the enclosing task:
\*   async with task_group() as tg: tg.spawn(...); tg.spawn(...); body
MainSend(w, b, r) ==
    IF w.co[Main].st = "CORO_CREATED" THEN BodyStart(SpawnAll(w, 1), b, r)
    ELSE IF w.co[Main].pc = "body" THEN BodyEnd(w, b, OAwaited(w.fut[BodyFut]), r)
    ELSE JoinResumed(w, r)

\* loop.call_soon_thread_safe(_ignore_feature_finished_error, ...) for the
\* outcome o of cfuture: the call joins the ready callbacks of the loop
CallSoonThreadSafe(w, o) == OCallSoon(w, IgnoreCb(o), NoO)

\* ConcurrentExecutor.execute_sync_callable: submit, the waiter, the done
\* callback on cfuture, and the await of the waiter; resumed with Cancelled
\* it submits cfuture.cancel and raises
ExecSend(w) ==
    IF w.co[Caller].st = "CORO_CREATED"
    THEN OYields([w EXCEPT !.pool = [cfuture |-> "pending", jobs |-> {"fn"}],
                           !.fut[ExecWaiter] = OPending,
                           !.co[Caller].pc = "wait"], Caller, ExecWaiter)
    ELSE LET e == OAwaited(w.fut[ExecWaiter]) IN
         IF OIsCancelledExc(e)
         THEN ORaises([w EXCEPT !.pool.jobs = @ \cup {"cancel"}], Caller, e)
         ELSE IF e # ONone THEN ORaises(w, Caller, e)
         ELSE OReturns(w, Caller)

\* coroutine.send(None); a coroutine that has ended cannot be resumed
OSend(w, b, p, t, r) ==
    IF w.co[t].st = "CORO_CLOSED" THEN OEnded(w, "raise", NoO, ORuntimeError)
    ELSE IF t = Caller THEN ExecSend(w)
    ELSE IF t = Main THEN MainSend(w, b, r)
    ELSE IF t = JoinTask THEN JoinSend(w)
    ELSE ChildSend(w, p, t)

\* Task._execute_coroutine_step, lines 287 to 309: the coroutine has yielded x
OSubscribe(w, t, x) ==
    IF w.err # OOk THEN w
    ELSE [OAddCallback(w, x, SchedCb(t)) EXCEPT !.fut[t].waiting_on = x]
OUnsubscribe(w, t, x) ==
    IF x = t THEN ORaised(w, ORuntimeError)
    ELSE OSubscribe(IF w.fut[t].waiting_on # NoO
                    THEN ORemoveCallback(w, w.fut[t].waiting_on, SchedCb(t))
                    ELSE w, t, x)
OYielded(w, t, x, r) ==
    OUnsubscribe(IF w.fut[t].state = "scheduled"
                 THEN OStartedSet([w EXCEPT !.fut[t].state = "running"], t, r)
                 ELSE w, t, x)

\* Task._execute_coroutine_step, lines 275 to 285: what the send has ended in
OAfterSend(res, t, r) ==
    IF res.kind = "return" THEN OTaskSetResult(res.w, t, ONone, r)
    ELSE IF res.kind = "raise" THEN OTaskSetResult(res.w, t, res.exc, r)
    ELSE OYielded(res.w, t, res.fut, r)

\* Task._execute_coroutine_step
OExecuteCoroutineStep(w, b, p, t, r) == OAfterSend(OSend(w, b, p, t, r), t, r)

(***************************************************************************)
(* The loop and the code outside it, for the task group                    *)
(***************************************************************************)
\* the exception fn raised in the worker thread
WorkerExc == OExc("WorkerError", 0, NoO)

\* how fn can end in the worker thread: it returns, raises an Exception, or
\* raises a BaseException that is no Exception
WorkerOutcomes == {"result", "exception", "base_exception"}

\* waiter.set_result, waiter.set_exception or waiter.cancel, as
\* on_result_from_executor has chosen for the outcome o of cfuture
WaiterCall(w, o, r) ==
    CASE o = "result" -> OSetResult(w, ExecWaiter, ONone, r)
      [] o = "exception" -> OPromiseSetException(w, ExecWaiter, WorkerExc, r)
      [] o = "base_exception" -> OPromiseSetException(w, ExecWaiter, ORuntimeError, r)
      [] OTHER -> OFutureCancel(w, ExecWaiter, "none", r)

\* _ignore_feature_finished_error
IgnoreFinished(w1) == IF w1.err = OFinishedError THEN [w1 EXCEPT !.err = OOk] ELSE w1

\* the loop calls one ready callback
ORun(w, b, p, e, r) ==
    CASE e.cb[1] = "sched" -> OScheduleExecution(w, e.cb[2])
      [] e.cb[1] = "ignore" -> IgnoreFinished(WaiterCall(w, e.cb[2][1], r))
      [] e.cb[1] = "step" -> OExecuteCoroutineStep(w, b, p, e.cb[2], r)
      [] e.cb[1] = "shield_cb" ->
            OShieldDone(w, IF e.cb[2] = WaitShield THEN StartedFut ELSE JoinTask,
                        e.cb[2][2], r)
      [] e.cb[1] = "user" -> w
      [] OTHER -> OnDone(w, e.arg, r)

OCommit(w) ==
    /\ ofut' = w.fut
    /\ oco' = w.co
    /\ oqueue' = w.queue
    /\ group' = w.group
    /\ doneq' = w.doneq
    /\ oerr' = w.err
    /\ scope' = w.scope
    /\ pool' = w.pool
    /\ completed' = completed \o SelectSeq(w.group.tasks,
                                   LAMBDA t : ~OIsFinished(ofut[t]) /\ OIsFinished(w.fut[t]))
    /\ UNCHANGED <<body, cprog, rank>>
    /\ UNCHANGED vars

\* one iteration of the loop; what the callback raises is kept in oerr
OTick ==
    /\ oqueue # <<>>
    /\ OCommit(ORun([OWorld EXCEPT !.queue = Tail(@)], body, cprog, Head(oqueue), rank))
    /\ UNCHANGED <<budget, order>>

\* promise.set_result(None) on a future the body or a child awaits
OutsideSetResult(x) ==
    /\ budget.writes > 0
    /\ OCommit(OSetResult(OWorld, x, ONone, rank))
    /\ budget' = [budget EXCEPT !.writes = @ - 1]
    /\ UNCHANGED order

\* a cancellation of the enclosing task
CancelMain ==
    /\ budget.inbound > 0
    /\ OCommit(OTaskCancel(OWorld, Main, "outside", rank))
    /\ budget' = [budget EXCEPT !.inbound = @ - 1]
    /\ UNCHANGED order

\* promise.set_exception(e)
OutsideSetException(x, e) ==
    /\ budget.writes > 0
    /\ OCommit(OPromiseSetException(OWorld, x, e, rank))
    /\ budget' = [budget EXCEPT !.writes = @ - 1]
    /\ UNCHANGED order

\* promise.cancel()
OutsideCancel(x) ==
    /\ budget.writes > 0
    /\ OCommit(OCancel(OWorld, x, "outside", rank))
    /\ budget' = [budget EXCEPT !.writes = @ - 1]
    /\ UNCHANGED order

\* future.add_callback(cb) with a callback of the code outside the loop
OutsideAddCallback(x, n) ==
    /\ budget.writes > 0
    /\ OCommit(OAddCallback(OWorld, x, UserOCb(n)))
    /\ budget' = [budget EXCEPT !.writes = @ - 1]
    /\ order' = IF UserOCb(n) \in ofut'[x].cbs /\ UserOCb(n) \notin ofut[x].cbs
                THEN Append(order, <<x, UserOCb(n)>>)
                ELSE order

\* future.remove_callback(cb) with a callback of the code outside the loop
OutsideRemoveCallback(x, n) ==
    /\ budget.writes > 0
    /\ OCommit(ORemoveCallback(OWorld, x, UserOCb(n)))
    /\ budget' = [budget EXCEPT !.writes = @ - 1]
    /\ order' = IF UserOCb(n) \notin ofut'[x].cbs
                THEN SeqRemove(order, <<x, UserOCb(n)>>)
                ELSE order

\* a cancellation of the task that awaits execute_sync_callable
CancelCaller ==
    /\ budget.inbound > 0
    /\ ofut[Caller].state # "absent"
    /\ OCommit(OTaskCancel(OWorld, Caller, "outside", rank))
    /\ budget' = [budget EXCEPT !.inbound = @ - 1]
    /\ UNCHANGED order

\* a worker thread takes fn: set_running_or_notify_cancel, which drops the
\* work of a cancelled cfuture
WorkerTake ==
    /\ "fn" \in pool.jobs
    /\ OCommit([OWorld EXCEPT !.pool.jobs = @ \ {"fn"},
                              !.pool.cfuture = IF @ = "pending" THEN "running" ELSE @])
    /\ UNCHANGED <<budget, order>>

\* fn has returned or raised in the worker thread: cfuture is done, and
\* on_result_from_executor runs in that thread
WorkerFinish(o) ==
    /\ pool.cfuture = "running"
    /\ OCommit(CallSoonThreadSafe([OWorld EXCEPT !.pool.cfuture = "finished"], o))
    /\ UNCHANGED <<budget, order>>

\* cfuture.cancel(): only a pending cfuture is cancelled, and then
\* on_result_from_executor runs in the thread that cancelled it
CFutureCancel(w) ==
    IF w.pool.cfuture = "pending"
    THEN CallSoonThreadSafe([w EXCEPT !.pool.cfuture = "cancelled"], "cancelled")
    ELSE w

\* a worker thread runs the cfuture.cancel that execute_sync_callable submitted
WorkerCancel ==
    /\ "cancel" \in pool.jobs
    /\ OCommit(CFutureCancel([OWorld EXCEPT !.pool.jobs = @ \ {"cancel"}]))
    /\ UNCHANGED <<budget, order>>

\* executor.shutdown(cancel_futures=True) cancels the work no worker has taken
ShutdownCancel ==
    /\ "fn" \in pool.jobs
    /\ pool.cfuture = "pending"
    /\ OCommit(CFutureCancel(OWorld))
    /\ UNCHANGED <<budget, order>>

ONewCoroutine(t) ==
    [st |-> "CORO_CREATED", pc |-> IF t \in Children THEN 1 ELSE "start",
     body_exc |-> ONone, shield |-> 0, caught |-> 0, got |-> 0, seen |-> <<>>,
     item |-> NoO]
OUserCbs == {1, 2}
\* the futures the code outside the loop holds the promise of
PlainFuts == {BodyFut, ChildFut(1)}
Awaited == {BodyFut} \cup {ChildFut(i) : i \in ChildIds}
Bodies == [awaits : BOOLEAN, raises : BOOLEAN]
CbList ==
    <<SchedCb(Main), OnDoneCb, SchedCb(JoinTask)>>
        \o [i \in 1..Cardinality(ChildIds) |-> SchedCb(Child(i))]
        \o [k \in 1..(MaxInbound + 1) |-> ShieldCb(k)]
        \o [n \in 1..Cardinality(OUserCbs) |-> UserOCb(n)]
        \o <<SchedCb(Late), ShieldCb(0), SchedCb(Caller)>>
Ranks ==
    { [cb \in {CbList[i] : i \in 1..Len(CbList)} |->
          LET i == CHOOSE j \in 1..Len(CbList) : CbList[j] = cb IN
          IF up THEN i ELSE Len(CbList) - i] : up \in BOOLEAN }

\* nothing is spawned yet; the enclosing task is made by _create_task
OStart ==
    OCreateTask(
        [fut |-> [x \in OObjs |-> IF x \in Awaited THEN OPending ELSE OAbsent],
         co |-> [t \in OTasks |-> ONewCoroutine(t)],
         queue |-> <<>>,
         group |-> [tasks |-> <<>>, finalized |-> FALSE],
         doneq |-> <<>>,
         err |-> OOk,
         scope |-> [left |-> FALSE, exc |-> ONone, live |-> {}, raised |-> <<>>],
         pool |-> NoPool],
        Main)

TGStart ==
    /\ ofut = OStart.fut
    /\ oco = OStart.co
    /\ oqueue = OStart.queue
    /\ group = OStart.group
    /\ doneq = OStart.doneq
    /\ oerr = OStart.err
    /\ scope = OStart.scope
    /\ pool = OStart.pool
    /\ budget = [writes |-> MaxWrites, inbound |-> MaxInbound]
    /\ order = <<>>
    /\ completed = <<>>

TGIdle ==
    /\ body = [awaits |-> FALSE, raises |-> FALSE]
    /\ cprog = [c \in Children |-> <<OReturn>>]
    /\ rank = CHOOSE r \in Ranks : TRUE
    /\ TGStart

PureStart ==
    /\ fut = [x \in Objs |-> IF x \in Tasks THEN AbsentState ELSE PendingState]
    /\ coro = [t \in Tasks |-> NewCoroutine]
    /\ queue = <<>>
    /\ handles = <<>>
    /\ calls = <<>>
    /\ err = Ok
    /\ fresh = 0
    /\ current = NoObj
    /\ ops = 0
    /\ last = NoCall

(***************************************************************************)
(* The futures of src/aio/future/pure.py under every call of the code      *)
(* outside the loop                                                        *)
(***************************************************************************)
Init ==
    /\ prog \in Programs
    /\ PureStart
    /\ TGIdle

Next ==
    \/ \E t \in Tasks : NewTask(t) \/ CreateTask(t) \/ ScheduleTask(t)
    \/ \E f \in Futs, v \in Vals : PromiseSetResult(f, v)
    \/ \E f \in Futs, e \in UserExcs \cup CancelInsts : PromiseSetException(f, e)
    \/ \E f \in Futs, a \in CancelInsts \cup {NoArg} : PromiseCancel(f, a)
    \/ \E t \in Tasks, a \in CancelInsts \cup {NoArg} : CancelTask(t, a)
    \/ \E x \in CbObjs, n \in UserCbs : UserAddCallback(x, n) \/ UserRemoveCallback(x, n)
    \/ Tick

Spec == Init /\ [][Next]_<<vars, ovars>>

\* the same calls around a task that cancels itself
SelfCancelInit ==
    /\ prog \in SelfCancelPrograms
    /\ PureStart
    /\ TGIdle

SelfCancelSpec == SelfCancelInit /\ [][Next]_<<vars, ovars>>

\* the same calls around a task that awaits itself
SelfAwaitInit ==
    /\ prog \in SelfAwaitPrograms
    /\ PureStart
    /\ TGIdle

SelfAwaitSpec == SelfAwaitInit /\ [][Next]_<<vars, ovars>>

\* the same calls around a task that cancels the task awaiting it, under
\* either loop
CrossCancelInit ==
    /\ prog \in CrossCancelPrograms
    /\ PureStart
    /\ TGIdle

CrossCancelNext == Next \/ TickAfter

CrossCancelSpec == CrossCancelInit /\ [][CrossCancelNext]_<<vars, ovars>>

(***************************************************************************)
(* A task whose coroutine opens a task_group scope, spawns the children    *)
(* and runs the body                                                       *)
(***************************************************************************)
TGInit ==
    /\ body \in Bodies
    /\ cprog \in [Children -> UNION {ChildPrograms(i) : i \in ChildIds}]
    /\ \A i \in ChildIds : cprog[Child(i)] \in ChildPrograms(i)
    /\ cprog[Late] = <<OReturn>>
    /\ rank \in Ranks
    /\ TGStart
    /\ prog = CHOOSE p \in Programs : TRUE
    /\ PureStart

TGNext ==
    \/ \E x \in Awaited : OutsideSetResult(x)
    \/ CancelMain
    \/ OTick

TGSpec == TGInit /\ [][TGNext]_<<vars, ovars>>

\* the same scope with a first child that holds the group and spawns into it
LateInit ==
    /\ body \in Bodies
    /\ cprog \in [Children -> HolderPrograms \cup ChildPrograms(2) \cup LatePrograms]
    /\ cprog[Child(1)] \in HolderPrograms
    /\ cprog[Child(2)] = <<OAwait(ChildFut(2)), OReturn>>
    /\ cprog[Late] \in LatePrograms
    /\ rank \in Ranks
    /\ TGStart
    /\ prog = CHOOSE p \in Programs : TRUE
    /\ PureStart

LateSpec == LateInit /\ [][TGNext]_<<vars, ovars>>

(***************************************************************************)
(* The futures of src/aio/future.py under the calls of the code outside    *)
(* the loop: no task runs, every future is completed through its promise   *)
(***************************************************************************)
FutureInit ==
    /\ body = [awaits |-> FALSE, raises |-> FALSE]
    /\ cprog = [c \in Children |-> <<OReturn>>]
    /\ rank \in Ranks
    /\ ofut = [x \in OObjs |-> IF x \in Awaited THEN OPending ELSE OAbsent]
    /\ oco = [t \in OTasks |-> ONewCoroutine(t)]
    /\ oqueue = <<>>
    /\ group = [tasks |-> <<>>, finalized |-> FALSE]
    /\ doneq = <<>>
    /\ oerr = OOk
    /\ scope = [left |-> FALSE, exc |-> ONone, live |-> {}, raised |-> <<>>]
    /\ budget = [writes |-> MaxCalls, inbound |-> 0]
    /\ order = <<>>
    /\ completed = <<>>
    /\ pool = NoPool
    /\ prog = CHOOSE p \in Programs : TRUE
    /\ PureStart

FutureNext ==
    \/ \E x \in PlainFuts : OutsideSetResult(x)
    \/ \E x \in PlainFuts, e \in {ChildExc(1), OCancelled("outside", NoO)} :
          OutsideSetException(x, e)
    \/ \E x \in PlainFuts : OutsideCancel(x)
    \/ \E x \in PlainFuts, n \in OUserCbs :
          OutsideAddCallback(x, n) \/ OutsideRemoveCallback(x, n)
    \/ OTick

FutureSpec == FutureInit /\ [][FutureNext]_<<vars, ovars>>

(***************************************************************************)
(* A task that awaits ConcurrentExecutor.execute_sync_callable             *)
(* (src/aio/components/executor.py), the worker threads of the pool, and   *)
(* cancellations of the task                                               *)
(***************************************************************************)
\* the loop with one task, made by _create_task of the coroutine that calls
\* execute_sync_callable
ExecStart ==
    OCreateTask(
        [fut |-> [x \in OObjs |-> OAbsent],
         co |-> [t \in OTasks |-> ONewCoroutine(t)],
         queue |-> <<>>,
         group |-> [tasks |-> <<>>, finalized |-> FALSE],
         doneq |-> <<>>,
         err |-> OOk,
         scope |-> [left |-> FALSE, exc |-> ONone, live |-> {}, raised |-> <<>>],
         pool |-> NoPool],
        Caller)

ExecInit ==
    /\ body = [awaits |-> FALSE, raises |-> FALSE]
    /\ cprog = [c \in Children |-> <<OReturn>>]
    /\ rank = CHOOSE r \in Ranks : TRUE
    /\ ofut = ExecStart.fut
    /\ oco = ExecStart.co
    /\ oqueue = ExecStart.queue
    /\ group = ExecStart.group
    /\ doneq = ExecStart.doneq
    /\ oerr = ExecStart.err
    /\ scope = ExecStart.scope
    /\ pool = ExecStart.pool
    /\ budget = [writes |-> 0, inbound |-> MaxInbound]
    /\ order = <<>>
    /\ completed = <<>>
    /\ prog = CHOOSE p \in Programs : TRUE
    /\ PureStart

ExecNext ==
    \/ OTick
    \/ CancelCaller
    \/ WorkerTake
    \/ \E o \in WorkerOutcomes : WorkerFinish(o)
    \/ WorkerCancel
    \/ ShutdownCancel

ExecSpec == ExecInit /\ [][ExecNext]_<<vars, ovars>>

(***************************************************************************)
(* The task group: what holds when control leaves the scope                *)
(***************************************************************************)
QueuedOSteps(t) == {i \in 1..Len(oqueue) : oqueue[i].cb = OStepCb(t)}
CancelledUnstarted(t) == OIsCancelled(ofut[t]) /\ oco[t].st = "CORO_CREATED"

\* C5: a Task cancelled before its first step has run is failed(Cancelled),
\* has no first step left in the ready queue, and no later loop tick resumes
\* its coroutine.  Stated of the tasks of src/aio/future.py.
C5_Revoked == \A t \in OTasks : CancelledUnstarted(t) => QueuedOSteps(t) = {}
C5_NotResumed ==
    \A t \in OTasks : CancelledUnstarted(t) => oco'[t].st = "CORO_CREATED"
C5_CancelBeforeFirstStep == []C5_Revoked /\ [][C5_NotResumed]_ovars

\* C7: on every way control leaves a task_group scope, every Task spawned in
\* the group is in a terminal state at that moment.
C7_NoChildOutlivesScope == scope.left => scope.live = {}

ScopeErrors == IF OIsMultiError(scope.exc) THEN scope.exc.inner ELSE <<scope.exc>>
\* C8: the error a task_group scope raises contains every exception raised by
\* a child of the group, each once, by identity, in spawn order.
C8_NoChildErrorLost ==
    scope.left =>
        SelectSeq(ScopeErrors, LAMBDA e : e.kind = "ChildError") = scope.raised

\* C9: when the body of the scope raises E, the scope ends only when every
\* child is finished, and raises E itself, or a MultiError of E and the
\* error of the join.
C9_BodyError ==
    LET E == oco[Main].body_exc IN
    (scope.left /\ E # ONone) =>
        /\ scope.live = {}
        /\ \/ scope.exc = E
           \/ OIsMultiError(scope.exc) /\ ScopeErrors # <<>> /\ Head(ScopeErrors) = E

\* C10: a cancellation of the enclosing task that arrives while the scope
\* waits for its join task is absorbed: the scope is left only when the join
\* task has finished, with Cancelled only if the join task was cancelled, and
\* with no error other than the body's and the join's.
C10_InboundAbsorbed ==
    (scope.left /\ oco[Main].caught > 0) =>
        /\ OIsFinished(ofut[JoinTask])
        /\ OIsCancelledExc(scope.exc) => OIsCancelled(ofut[JoinTask])
        /\ \/ scope.exc \in {ONone, oco[Main].body_exc}
           \/ OIsMultiError(scope.exc)
           \/ OIsCancelledExc(scope.exc)

\* a Cancelled made by TaskGroup.cancel: task_group passes its own message at
\* line 70 and none at line 86; a cancel from outside carries "outside"
GroupCancelled(e) == OIsCancelledExc(e) /\ e.msg \in {"body", "none"}
ChildErrors(keep(_)) ==
    LET failed == SelectSeq(group.tasks,
                            LAMBDA t : ofut[t].exc # ONone /\ keep(ofut[t].exc))
    IN  [i \in 1..Len(failed) |-> ofut[failed[i]].exc]
NotFromGroup(e) == ~GroupCancelled(e)

\* C11: the MultiError of TaskGroup._join holds the exceptions of the children
\* that are no Cancelled made by the group's own cancel, and _join raises
\* nothing when there is none.
C11_JoinAggregate ==
    (OIsFinished(ofut[JoinTask]) /\ oco[JoinTask].got = Len(group.tasks)) =>
        IF ChildErrors(NotFromGroup) = <<>> THEN ofut[JoinTask].exc = ONone
        ELSE /\ OIsMultiError(ofut[JoinTask].exc)
             /\ ofut[JoinTask].exc.inner = ChildErrors(NotFromGroup)

\* the loop runs a step of task t
OStepOf(t) == OTick /\ Head(oqueue).cb = OStepCb(t)

\* the place in the coroutine of child c of its call of the group, 0 if none
CallAt(c) ==
    IF \E k \in 1..Len(cprog[c]) : cprog[c][k].op \in {"spawn", "wait_started"}
    THEN CHOOSE k \in 1..Len(cprog[c]) : cprog[c][k].op \in {"spawn", "wait_started"}
    ELSE 0

\* the step runs instruction k of the coroutine of child c: a coroutine that
\* is started runs from its first instruction, one that is resumed in an await
\* and gets a result there from the one after it, up to the one it ends at
Executes(c, k) ==
    /\ OStepOf(c)
    /\ oco[c].st # "CORO_CLOSED"
    /\ (IF oco[c].st = "CORO_CREATED" THEN 1 ELSE oco[c].pc + 1) <= k
    /\ k <= oco'[c].pc

\* the steps of Late in the ready queue
LateSteps(q) == Len(SelectSeq(q, LAMBDA e : e.cb = OStepCb(Late)))

C26_Step ==
    LET c == Child(1) IN
    /\ group.finalized => group' = group
    /\ (group.finalized /\ CallAt(c) > 0 /\ Executes(c, CallAt(c))) =>
          /\ oco'[c].st = "CORO_CLOSED" /\ oco'[c].pc = CallAt(c)
          /\ ~OIsFinished(ofut[c]) => ofut'[c].exc = ORuntimeError
          /\ ofut'[Late] = ofut[Late] /\ oco'[Late] = oco[Late]
          /\ ofut'[StartedFut] = ofut[StartedFut]
          /\ ofut'[WaitShield] = ofut[WaitShield]
          /\ LateSteps(oqueue') = LateSteps(oqueue)

\* C26: once TaskGroup._join has begun, spawn and wait_started raise a
\* RuntimeError in their caller, create no Task, enqueue no step and leave the
\* list of children as it was.
C26_NoSpawnAfterJoin == [][C26_Step]_ovars

\* the child called wait_started after the join had begun, and failed with the
\* RuntimeError; the task it wanted to spawn was never made
C26_Witness ==
    /\ group.finalized
    /\ cprog[Child(1)][2] = OWaitStarted
    /\ oco[Child(1)].st = "CORO_CLOSED" /\ oco[Child(1)].pc = 2
    /\ ofut[Child(1)].exc = ORuntimeError
    /\ ofut[Late] = OAbsent

C27_Step ==
    LET c == Child(1) IN
    (/\ CallAt(c) > 0
     /\ cprog[c][CallAt(c)].op = "wait_started"
     /\ Executes(c, CallAt(c) + 1)) =>
        /\ oco[Late].st # "CORO_CREATED"
        /\ ofut[Late].state \in {"running", "finished"}

\* the caller is resumed in its await of wait_started
C27_Resumed ==
    LET c == Child(1) IN
    /\ OStepOf(c)
    /\ CallAt(c) > 0
    /\ cprog[c][CallAt(c)].op = "wait_started"
    /\ oco[c].st = "CORO_SUSPENDED"
    /\ oco[c].pc = CallAt(c)

\* C27: when wait_started returns to its caller, the coroutine of the child
\* has been sent into at least once and the child is running or finished,
\* not created or scheduled; and the caller is resumed in its await of
\* wait_started, with a result or with an exception, only in a step that comes
\* after the child's first step.
C27_WaitStarted ==
    [][C27_Step /\ (C27_Resumed => oco[Late].st # "CORO_CREATED")]_ovars

\* wait_started has returned to the child that called it, which has then
\* returned itself, while the task it spawned is running, suspended in its
\* await
C27_Witness ==
    /\ cprog[Child(1)][1] = OWaitStarted
    /\ OIsFinished(ofut[Child(1)]) /\ ofut[Child(1)].exc = ONone
    /\ oco[Child(1)].pc = 2
    /\ ofut[Late].state = "running"
    /\ oco[Late].st = "CORO_SUSPENDED"

\* the step calls tg.cancel: at line 70, with the exception of the body just
\* stored, or at line 86, with one more Cancelled caught
CallsGroupCancel ==
    /\ OStepOf(Main)
    /\ \/ oco[Main].body_exc = ONone /\ oco'[Main].body_exc # ONone
       \/ oco'[Main].caught = oco[Main].caught + 1

\* the children of the group, as a set
GroupTasks == {group.tasks[i] : i \in 1..Len(group.tasks)}

C28_Step ==
    CallsGroupCancel =>
        /\ \A t \in GroupTasks :
              IF OIsFinished(ofut[t]) THEN ofut'[t] = ofut[t]
              ELSE ofut'[t].state \in {"finishing", "finished"}
        /\ ~(scope'.left /\ scope'.exc = OFinishedError)

\* C28: TaskGroup.cancel requests the cancellation of every child that is not
\* finished, leaves the finished children as they are and raises nothing,
\* whatever mix of finished and unfinished children the group holds.
C28_GroupCancel == [][C28_Step]_ovars

\* the futures the iterator of iter_done_futures has yielded to _join so far
Yielded == oco[JoinTask].seen
\* the place of x among them, 0 if it was not yielded
YieldedAt(x) ==
    IF \E i \in 1..Len(Yielded) : Yielded[i] = x
    THEN CHOOSE i \in 1..Len(Yielded) : Yielded[i] = x
    ELSE 0

\* the children the scope spawns
Spawned == {Child(i) : i \in ChildIds}

\* every yielded future is a future that was passed and is finished, none is
\* yielded twice, and the iterator has ended only after len(fs) items
C29_Once ==
    /\ \A i \in 1..Len(Yielded) :
          /\ Yielded[i] \in GroupTasks
          /\ OIsFinished(ofut[Yielded[i]])
          /\ \A j \in 1..Len(Yielded) : Yielded[i] = Yielded[j] => i = j
    /\ (oco[JoinTask].st = "CORO_CLOSED" /\ ofut[JoinTask].exc.kind # "RuntimeError")
          => Len(Yielded) = Len(group.tasks)

\* the place of x among the finished tasks of the group
CompletedAt(x) == CHOOSE i \in 1..Len(completed) : completed[i] = x

\* C29: iter_done_futures yields each of the futures it was given once, in the
\* order in which they completed, whatever the order in which they were
\* passed, and it ends after len(fs) items.
C29_CompletionOrder ==
    /\ C29_Once
    /\ \A i \in 1..Len(Yielded) : \A j \in 1..Len(Yielded) :
          i < j => CompletedAt(Yielded[i]) < CompletedAt(Yielded[j])

\* the loop runs the future_done_cb of the shield future x
ShieldCbOf(x) == OTick /\ Head(oqueue).cb = <<"shield_cb", x>>
\* the future that shield future shields
Shielded(x) == IF x = WaitShield THEN StartedFut ELSE JoinTask
ShieldFuts == {WaitShield} \cup {Shield(k) : k \in 1..(MaxInbound + 1)}

C30_Step ==
    /\ \A x \in ShieldFuts :
          ShieldCbOf(x) =>
              /\ oerr' = OOk
              /\ ~OIsFinished(ofut[x]) =>
                    /\ OIsFinished(ofut'[x])
                    /\ ofut'[x].exc = ofut[Shielded(x)].exc
    /\ CancelMain => ofut'[JoinTask] = ofut[JoinTask]

\* C30: the future of shield(fut) ends with the outcome of fut when fut ends,
\* and a cancel of the task that awaits it leaves fut as it is and does not
\* make the callback shield left on fut raise when fut completes later.
C30_Shield == [][C30_Step]_ovars

\* a step of a thread of the pool
WorkerStep ==
    \/ WorkerTake
    \/ \E o \in WorkerOutcomes : WorkerFinish(o)
    \/ WorkerCancel
    \/ ShutdownCancel

\* the loop runs a call that a thread of the pool has submitted
IgnoreTick == OTick /\ Head(oqueue).cb[1] = "ignore"

\* a thread of the pool touches no future: all it does to the loop is to add
\* one call of _ignore_feature_finished_error to the ready callbacks
C33_OffLoop ==
    WorkerStep =>
        /\ ofut' = ofut
        /\ oqueue' = oqueue
              \/ \E o \in WorkerOutcomes \cup {"cancelled"} :
                    oqueue' = Append(oqueue, [cb |-> IgnoreCb(o), arg |-> NoO])

\* the waiter is completed by a call the pool has submitted or by the
\* cancellation of the task that awaits it, and once completed it stays as
\* it is
C33_Once ==
    /\ (~OIsFinished(ofut[ExecWaiter]) /\ OIsFinished(ofut'[ExecWaiter])) =>
          IgnoreTick \/ CancelCaller
    /\ OIsFinished(ofut[ExecWaiter]) => ofut'[ExecWaiter] = ofut[ExecWaiter]

\* the completion of the worker that finds the waiter finished raises nothing
C33_LateCompletion ==
    (IgnoreTick /\ OIsFinished(ofut[ExecWaiter])) => oerr' = OOk

\* the cancellation that finds the waiter completed by the worker, the task
\* still waiting on it, raises nothing
C33_LateCancel ==
    (/\ CancelCaller
     /\ pool.cfuture = "finished"
     /\ ofut[Caller].waiting_on = ExecWaiter
     /\ ~OIsFinished(ofut[Caller])
     /\ OIsFinished(ofut[ExecWaiter])) => oerr' = OOk

\* C33: the waiter of execute_sync_callable is completed only on the loop, by
\* a call submitted through call_soon_thread_safe, never by the worker thread
\* itself; when the completion of the worker and a cancellation of the waiter
\* race, the waiter is completed once, by the one that reaches the loop
\* first, and the later one raises nothing and leaves the waiter as it is.
C33_Bridge ==
    [][C33_OffLoop /\ C33_Once /\ C33_LateCompletion /\ C33_LateCancel]_ovars

\* the tasks the group has accepted
Accepted == {group.tasks[i] : i \in 1..Len(group.tasks)}

\* _join has t in hand: its callback is on t, or queued for t, or t is in the
\* queue of done futures, or the iterator has handed t over
JoinHolds(t) ==
    \/ OnDoneCb \in ofut[t].cbs
    \/ \E i \in 1..Len(oqueue) : oqueue[i].cb = OnDoneCb /\ oqueue[i].arg = t
    \/ \E i \in 1..Len(doneq) : doneq[i] = t
    \/ \E i \in 1..Len(oco[JoinTask].seen) : oco[JoinTask].seen[i] = t
    \/ oco[JoinTask].item = t

\* once _join has captured the list, it has every accepted task in hand
C37_Captured == group.finalized => \A t \in Accepted : JoinHolds(t)

\* a spawn is accepted only while the capture is still to come: _join has not
\* begun, and the scope that creates the join task has not been left
C37_Step ==
    Accepted' # Accepted =>
        /\ ~group.finalized
        /\ oco[JoinTask].st = "CORO_CREATED"
        /\ ~scope.left

\* C37: every Task that spawn returned is among the children _join waits
\* for: no spawn is accepted after _join has captured the list of children,
\* so no spawned Task escapes the join and the final aggregate.
C37_NoEscape == []C37_Captured /\ [][C37_Step]_ovars

(***************************************************************************)
(* The callbacks of the futures of src/aio/future.py                       *)
(***************************************************************************)
C14_Step ==
    \A x \in PlainFuts, n \in OUserCbs :
        (OIsFinished(ofut[x]) /\ OutsideAddCallback(x, n)) =>
            /\ oerr'.kind = "FutureFinishedError"
            /\ ofut'[x].cbs = ofut[x].cbs
            /\ oqueue' = oqueue

\* C14: add_callback on a future that is already finished fails with
\* FutureFinishedError, registers nothing and enqueues nothing on the loop.
\* Stated of the futures of src/aio/future.py.
C14_AddOnTerminal == [][C14_Step]_ovars

C16_Step ==
    \A x \in PlainFuts, n \in OUserCbs :
        (UserOCb(n) \notin ofut[x].cbs /\ OutsideRemoveCallback(x, n)) =>
            /\ oerr' = OOk
            /\ ofut'[x].cbs = ofut[x].cbs
            /\ oqueue' = oqueue

\* C16: remove_callback of a callback that is not registered, on a pending or
\* on a finished future, raises nothing and changes neither the callback set
\* nor the ready queue.  Stated of the futures of src/aio/future.py.
C16_RemoveIdempotent == [][C16_Step]_ovars

\* the callbacks registered on x, in the order in which they were added
AddedTo(x) ==
    LET o == SelectSeq(order, LAMBDA p : p[1] = x) IN
    [i \in 1..Len(o) |-> o[i][2]]

\* the callbacks of the entries the step has appended to the ready queue
Enqueued ==
    [i \in 1..(Len(oqueue') - Len(oqueue)) |-> oqueue'[Len(oqueue) + i].cb]

C17_Step ==
    \A x \in PlainFuts :
        (~OIsFinished(ofut[x]) /\ OIsFinished(ofut'[x])) => Enqueued = AddedTo(x)

\* C17: when a future with several registered callbacks completes, the
\* callbacks are enqueued on the loop, and so invoked, in the order in which
\* they were added.  Stated of the futures of src/aio/future.py.
C17_InsertionOrder == [][C17_Step]_ovars

====
